---- MODULE Spec2Model ----
(***************************************************************************)
(* Model of the RAG chatbot backend (Bushraturk/ragchatbot):               *)
(*   - RAGService (retrieve_context, generate_response, process_query,     *)
(*     process_request, add_document)                                      *)
(*   - VectorStore (lazy initialisation, upsert, search)                   *)
(*   - SessionService and the POST /chat endpoint                          *)
(* Texts that the code inspects character by character (strip, substring   *)
(* search, truthiness) are sequences of one-character strings.  Texts that *)
(* the code only passes around or concatenates are sequences of tokens.    *)
(***************************************************************************)
EXTENDS Integers, Sequences, FiniteSets, TLC

VARIABLES
    settings,   \* configuration read at start-up (core/config.py)
    vs,         \* the shared VectorStore instance (core/vector_store.py)
    rc,         \* record of the last direct retrieve_context call
    gen,        \* record of the last direct generate_response call
    turn,       \* the turn in the RAG pipeline (process_request / process_query)
    db,         \* the relational store: sessions and messages tables, server clock
    nextId,     \* number of uuid4 values drawn so far
    issued,     \* session ids returned by successful chat responses so far
    resp,       \* record of the last POST /chat request and its response
    hist,       \* record of the last get_session_messages call
    ck,         \* record of the last direct _chunk_document call
    docs,       \* the relational store: documents and document_chunks tables
    ing,        \* record of the ingestion calls (add_document / create_document)
    tool,       \* record of the last RAGQueryTool query
    route,      \* record of the last delete-session / get-document request
    kit,        \* the SimpleStore of sitemap_rag_main.py and its last POST /chatkit
    threads,    \* the threads and thread_items tables of main.py
    removal,    \* record of the last delete_document call
    pager,      \* record of the pages load_thread_items returned so far
    conc        \* the chat requests being handled concurrently

vsVars   == <<settings, vs>>
callVars == <<rc, gen>>
pipeVars == <<turn>>
dbVars   == <<db, nextId>>
chatVars == <<issued, resp, hist>>
routeVars == <<route, kit, threads>>
lateVars == <<removal, pager, conc>>
auxVars  == <<ck, docs, ing, tool, routeVars, lateVars>>
vars     == <<settings, vs, rc, gen, turn, db, nextId, issued, resp, hist, ck, docs, ing, tool,
              route, kit, threads, removal, pager, conc>>

(***************************************************************************)
(* Bounds of the model                                                     *)
(***************************************************************************)
MaxCtx == 4            \* longest context list handed to generate_response
MaxLimit == 2          \* largest retrieval limit tried
MaxTurns == 2          \* chat requests in one run of the session scenario
MaxIds == 3            \* uuid4 values drawn in one run
MaxContent == 4        \* longest enumerated content handed to the chunker
MaxChunkSize == 3      \* largest chunk_size tried on the enumerated contents
MaxIngests == 2        \* ingestion calls in one run of the document scenario
MaxRouteCalls == 2
\* thread items stored, and the largest page limit asked for
MaxItems == 4
MaxPageLimit == 2     \* delete / fetch requests in one run of the route scenario

(***************************************************************************)
(* Text helpers (Python str semantics)                                     *)
(***************************************************************************)
\* Python None where a text is expected
NONE == <<"<None>">>

Whitespace == {" ", "\n", "\t"}

\* bool(x) of an Optional[str]
Truthy(t) == t # NONE /\ t # <<>>

RECURSIVE LStrip(_)
LStrip(s) ==
    IF s = <<>> THEN <<>>
    ELSE IF Head(s) \in Whitespace THEN LStrip(Tail(s)) ELSE s

RECURSIVE RStrip(_)
RStrip(s) ==
    IF s = <<>> THEN <<>>
    ELSE IF s[Len(s)] \in Whitespace THEN RStrip(SubSeq(s, 1, Len(s) - 1)) ELSE s

\* str.strip()
Strip(s) == RStrip(LStrip(s))

\* str.lower(), on the letters that occur in the error strings of the model
LowerChar(c) ==
    CASE c = "Q" -> "q"
      [] c = "R" -> "r"
      [] c = "A" -> "a"
      [] c = "T" -> "t"
      [] c = "E" -> "e"
      [] OTHER -> c

Lower(s) == [i \in 1..Len(s) |-> LowerChar(s[i])]

\* `sub in s`
Contains(s, sub) ==
    \E i \in 1..(Len(s) - Len(sub) + 1) : SubSeq(s, i, i + Len(sub) - 1) = sub

\* the elements of a list
Range(s) == {s[i] : i \in DOMAIN s}

\* dict.get(key, default)
Get(d, key, default) == IF key \in DOMAIN d THEN d[key] ELSE default

\* sep.join(parts), on token sequences
RECURSIVE Join(_, _)
Join(parts, sep) ==
    IF parts = <<>> THEN <<>>
    ELSE IF Len(parts) = 1 THEN <<parts[1]>>
    ELSE <<parts[1], sep>> \o Join(Tail(parts), sep)

\* a text of n characters
LongText(n) == [i \in 1..n |-> "x"]

\* s[:n]
Prefix(s, n) == SubSeq(s, 1, IF Len(s) < n THEN Len(s) ELSE n)

(***************************************************************************)
(* Fixed strings of RAGService.generate_response                           *)
(***************************************************************************)
Refusal == <<"Information not found in the book">>

HighDemand ==
    <<"I'm currently experiencing high demand. Please try again in a few moments. (API rate limit reached)">>

BestEffort(titles) ==
    <<"I found relevant information in: ">> \o Join(titles, ", ")
        \o <<". However, I couldn't generate a full response due to a temporary issue. Please try again.">>

\* similarity scores are hundredths: 100 stands for 1.0
SelectedScore == 100
SelectedDocId == "selected_text"

(***************************************************************************)
(* RAGService.generate_response                                            *)
(***************************************************************************)
\* the error-classification heuristic of the except branch
IsRateLimit(error_str) ==
    \/ Contains(error_str, <<"4", "2", "9">>)
    \/ Contains(Lower(error_str), <<"q", "u", "o", "t", "a">>)
    \/ Contains(Lower(error_str), <<"r", "a", "t", "e">>)

\* context_parts / combined_context of the system prompt
CombinedContext(context_items) ==
    LET contents == [i \in 1..Len(context_items) |-> Get(context_items[i], "content", <<>>)]
        parts == SelectSeq(contents, LAMBDA c : c # <<>>)
    IN  Join([i \in 1..Len(parts) |-> <<"Context: ", parts[i]>>], <<"\n\n">>)

\* the message list handed to litellm.completion
LlmMessages(query, context_items, chat_history) ==
    <<[role |-> "system", content |-> CombinedContext(context_items)]>>
        \o [i \in 1..Len(chat_history) |->
                [role |-> Get(chat_history[i], "role", "user"),
                 content |-> Get(chat_history[i], "content", <<>>)]]
        \o <<[role |-> "user", content |-> query]>>

\* variant of FallbackTitles that forgets the [:3] slice
FallbackTitlesAll(context_items) ==
    LET titles == [i \in 1..Len(context_items) |->
                     Get(Get(context_items[i], "metadata", <<>>), "title", "")]
    IN  SelectSeq(titles, LAMBDA t : t # "")

\* titles named by the best-effort fallback
FallbackTitles(context_items) ==
    LET first3 == Prefix(context_items, 3)
        titles == [i \in 1..Len(first3) |-> Get(Get(first3[i], "metadata", <<>>), "title", "")]
    IN  SelectSeq(titles, LAMBDA t : t # "")

\* variant of GenerateResponse that tries the context fallback before the
\* rate-limit test
GenerateResponseContextFirst(query, context_items, chat_history, llm) ==
    LET messages == LlmMessages(query, context_items, chat_history)
        text ==
            IF llm.kind = "ok"
            THEN IF Truthy(llm.text) THEN llm.text ELSE Refusal
            ELSE IF context_items # <<>> /\ FallbackTitles(context_items) # <<>>
                 THEN BestEffort(FallbackTitles(context_items))
            ELSE IF IsRateLimit(llm.err) THEN HighDemand
            ELSE Refusal
    IN  [text |-> text, messages |-> messages, raised |-> FALSE, llmCalls |-> 1]

\* variant of GenerateResponse without the try/except: a failed completion
\* call propagates to the caller
GenerateResponseNoCatch(query, context_items, chat_history, llm) ==
    LET messages == LlmMessages(query, context_items, chat_history)
    IN  [text |-> IF llm.kind = "ok" /\ Truthy(llm.text) THEN llm.text ELSE Refusal,
         messages |-> messages, raised |-> llm.kind = "error", llmCalls |-> 1]

\* variant of GenerateResponse that hands an empty completion text through
GenerateResponseRawText(query, context_items, chat_history, llm) ==
    LET messages == LlmMessages(query, context_items, chat_history)
        text ==
            IF llm.kind = "ok" THEN llm.text
            ELSE IF IsRateLimit(llm.err) THEN HighDemand
            ELSE IF context_items # <<>> /\ FallbackTitles(context_items) # <<>>
                 THEN BestEffort(FallbackTitles(context_items))
            ELSE Refusal
    IN  [text |-> text, messages |-> messages, raised |-> FALSE, llmCalls |-> 1]

\* llm is the outcome of litellm.completion:
\*   [kind |-> "ok", text |-> completion text]  or  [kind |-> "error", err |-> str(e)]
GenerateResponse(query, context_items, chat_history, llm) ==
    LET messages == LlmMessages(query, context_items, chat_history)
        text ==
            IF llm.kind = "ok"
            THEN IF Truthy(llm.text) THEN llm.text ELSE Refusal
            ELSE IF IsRateLimit(llm.err) THEN HighDemand
            ELSE IF context_items # <<>> /\ FallbackTitles(context_items) # <<>>
                 THEN BestEffort(FallbackTitles(context_items))
            ELSE Refusal
    IN  [text |-> text, messages |-> messages, raised |-> FALSE, llmCalls |-> 1]

(***************************************************************************)
(* VectorStore (core/vector_store.py)                                      *)
(***************************************************************************)
\* uuid.uuid5(NAMESPACE_DNS, doc_id): deterministic, one key per string
GenerateUuid(doc_id) == <<"uuid5", doc_id>>

\* VectorStore.__init__
VectorStoreInit == [initialized |-> FALSE, client |-> "none", points |-> <<>>]

\* VectorStore._ensure_initialized; ctorOk: the QdrantClient(url=...) constructor
\* returned.  Failures of get_collection / create_collection are swallowed by
\* the inner bare excepts and leave the client as constructed.
EnsureInitialized(store, cfg, ctorOk) ==
    IF store.initialized THEN store
    ELSE IF ~cfg.qdrant_configured
         THEN [store EXCEPT !.initialized = TRUE, !.client = "memory"]
    ELSE IF ctorOk
         THEN [store EXCEPT !.initialized = TRUE, !.client = "remote"]
    ELSE [store EXCEPT !.initialized = TRUE, !.client = "memory"]

\* client.upsert of one point: insert or replace by point id
Upsert(points, point_id, point) ==
    [p \in (DOMAIN points) \cup {point_id} |-> IF p = point_id THEN point ELSE points[p]]

\* variant: the point id is drawn afresh at every call instead of being
\* derived from doc_id
VSAddDocumentFreshId(store, cfg, ctorOk, upsertOk, doc_id, content, embedding, metadata) ==
    LET s1 == EnsureInitialized(store, cfg, ctorOk)
        point_id == <<"uuid4", Cardinality(DOMAIN s1.points)>>
        point == [vector |-> embedding,
                  payload |-> [content |-> content, metadata |-> metadata,
                               original_doc_id |-> doc_id]]
    IN  IF upsertOk THEN [s1 EXCEPT !.points = Upsert(s1.points, point_id, point)]
        ELSE s1

\* VectorStore.add_document; upsertOk: the upsert call returned
VSAddDocument(store, cfg, ctorOk, upsertOk, doc_id, content, embedding, metadata) ==
    LET s1 == EnsureInitialized(store, cfg, ctorOk)
        point_id == GenerateUuid(doc_id)
        point == [vector |-> embedding,
                  payload |-> [content |-> content, metadata |-> metadata,
                               original_doc_id |-> doc_id]]
    IN  IF upsertOk THEN [s1 EXCEPT !.points = Upsert(s1.points, point_id, point)]
        ELSE s1

\* the answers client.query_points may give for `limit`: the best `limit`
\* points, best first; the ranking and the scores are the index's business
Scores == {50, 90}

QueryPointsAnswers(points, limit) ==
    LET n == IF Cardinality(DOMAIN points) < limit THEN Cardinality(DOMAIN points) ELSE limit
    IN  {h \in [1..n -> (DOMAIN points) \X Scores] :
            /\ \A i, j \in 1..n : i # j => h[i][1] # h[j][1]
            /\ \A i \in 1..(n - 1) : h[i][2] >= h[i + 1][2]}

\* VectorStore.search; searchOk: query_points returned `answer`
VSSearch(store, cfg, ctorOk, searchOk, answer) ==
    LET s1 == EnsureInitialized(store, cfg, ctorOk)
        results ==
            IF searchOk
            THEN [i \in 1..Len(answer) |->
                    [id |-> answer[i][1],
                     content |-> Get(s1.points[answer[i][1]].payload, "content", <<>>),
                     metadata |-> Get(s1.points[answer[i][1]].payload, "metadata", <<>>),
                     similarity_score |-> answer[i][2]]]
            ELSE <<>>
    IN  [store |-> s1, results |-> results]

(***************************************************************************)
(* RAGService.retrieve_context                                             *)
(***************************************************************************)
\* one search result mapped to a context item
HitToItem(result) ==
    [document_id |-> Get(Get(result, "metadata", <<>>), "document_id", ""),
     content |-> Get(result, "content", <<>>),
     metadata |-> [title |-> Get(Get(result, "metadata", <<>>), "title", ""),
                   source_type |-> Get(Get(result, "metadata", <<>>), "source_type", ""),
                   chunk_order |-> Get(Get(result, "metadata", <<>>), "chunk_order", 0)],
     similarity_score |-> Get(result, "similarity_score", 0)]

\* variant of RetrieveContext that strips the selected text
RetrieveContextStripped(query, mode, selected_text, limit, store, cfg, env) ==
    IF mode = "selected_text" /\ Truthy(selected_text)
    THEN [items |-> <<[document_id |-> SelectedDocId,
                       content |-> Strip(selected_text),
                       metadata |-> [source_type |-> "USER_SELECTION"],
                       similarity_score |-> SelectedScore]>>,
          store |-> store, raised |-> FALSE, embedCalls |-> 0, searchCalls |-> 0]
    ELSE LET s1 == EnsureInitialized(store, cfg, env.ctorOk)
         IN  IF ~env.embedOk
             THEN [items |-> <<>>, store |-> s1, raised |-> FALSE,
                   embedCalls |-> 1, searchCalls |-> 0]
             ELSE LET found == VSSearch(s1, cfg, env.ctorOk, env.searchOk, env.answer)
                  IN  [items |-> [i \in 1..Len(found.results) |-> HitToItem(found.results[i])],
                       store |-> found.store, raised |-> FALSE,
                       embedCalls |-> 1, searchCalls |-> 1]

\* variant of RetrieveContext that initialises the vector store before
\* looking at the mode
RetrieveContextEagerInit(query, mode, selected_text, limit, store, cfg, env) ==
    LET s1 == EnsureInitialized(store, cfg, env.ctorOk)
    IN  IF mode = "selected_text" /\ Truthy(selected_text)
        THEN [items |-> <<[document_id |-> SelectedDocId,
                           content |-> selected_text,
                           metadata |-> [source_type |-> "USER_SELECTION"],
                           similarity_score |-> SelectedScore]>>,
              store |-> s1, raised |-> FALSE, embedCalls |-> 0, searchCalls |-> 0]
        ELSE IF ~env.embedOk
             THEN [items |-> <<>>, store |-> s1, raised |-> FALSE,
                   embedCalls |-> 1, searchCalls |-> 0]
             ELSE LET found == VSSearch(s1, cfg, env.ctorOk, env.searchOk, env.answer)
                  IN  [items |-> [i \in 1..Len(found.results) |-> HitToItem(found.results[i])],
                       store |-> found.store, raised |-> FALSE,
                       embedCalls |-> 1, searchCalls |-> 1]

\* variant of RetrieveContext without the try/except around the full-book
\* branch: a failed embedding call propagates
RetrieveContextNoCatch(query, mode, selected_text, limit, store, cfg, env) ==
    IF mode = "selected_text" /\ Truthy(selected_text)
    THEN [items |-> <<[document_id |-> SelectedDocId,
                       content |-> selected_text,
                       metadata |-> [source_type |-> "USER_SELECTION"],
                       similarity_score |-> SelectedScore]>>,
          store |-> store, raised |-> FALSE, embedCalls |-> 0, searchCalls |-> 0]
    ELSE LET s1 == EnsureInitialized(store, cfg, env.ctorOk)
         IN  IF ~env.embedOk
             THEN [items |-> <<>>, store |-> s1, raised |-> TRUE,
                   embedCalls |-> 1, searchCalls |-> 0]
             ELSE LET found == VSSearch(s1, cfg, env.ctorOk, env.searchOk, env.answer)
                  IN  [items |-> [i \in 1..Len(found.results) |-> HitToItem(found.results[i])],
                       store |-> found.store, raised |-> FALSE,
                       embedCalls |-> 1, searchCalls |-> 1]

\* variant of RetrieveContext that asks for the query embedding a second time
\* when the first call fails
RetrieveContextRetrying(query, mode, selected_text, limit, store, cfg, env) ==
    IF mode = "selected_text" /\ Truthy(selected_text)
    THEN [items |-> <<[document_id |-> SelectedDocId,
                       content |-> selected_text,
                       metadata |-> [source_type |-> "USER_SELECTION"],
                       similarity_score |-> SelectedScore]>>,
          store |-> store, raised |-> FALSE, embedCalls |-> 0, searchCalls |-> 0]
    ELSE LET s1 == EnsureInitialized(store, cfg, env.ctorOk)
             found == VSSearch(s1, cfg, env.ctorOk, env.searchOk, env.answer)
         IN  [items |-> [i \in 1..Len(found.results) |-> HitToItem(found.results[i])],
              store |-> found.store, raised |-> FALSE,
              embedCalls |-> IF env.embedOk THEN 1 ELSE 2, searchCalls |-> 1]

\* env: what the outside world does during the call
\*   ctorOk, embedOk, searchOk : BOOLEAN, answer : the index's answer
RetrieveContext(query, mode, selected_text, limit, store, cfg, env) ==
    IF mode = "selected_text" /\ Truthy(selected_text)
    THEN [items |-> <<[document_id |-> SelectedDocId,
                       content |-> selected_text,
                       metadata |-> [source_type |-> "USER_SELECTION"],
                       similarity_score |-> SelectedScore]>>,
          store |-> store, raised |-> FALSE, embedCalls |-> 0, searchCalls |-> 0]
    ELSE LET s1 == EnsureInitialized(store, cfg, env.ctorOk)
         IN  IF ~env.embedOk
             THEN [items |-> <<>>, store |-> s1, raised |-> FALSE,
                   embedCalls |-> 1, searchCalls |-> 0]
             ELSE LET found == VSSearch(s1, cfg, env.ctorOk, env.searchOk, env.answer)
                  IN  [items |-> [i \in 1..Len(found.results) |-> HitToItem(found.results[i])],
                       store |-> found.store, raised |-> FALSE,
                       embedCalls |-> 1, searchCalls |-> 1]

\* the outcomes the outside world can produce for one retrieve_context call
RetrieveEnvs(store, limit) ==
    [ctorOk : BOOLEAN, embedOk : BOOLEAN, searchOk : BOOLEAN,
     answer : QueryPointsAnswers(store.points, limit)]

(***************************************************************************)
(* RAGService._chunk_document and RAGService.add_document                  *)
(***************************************************************************)
ChunkSize == 1000

\* the n-th value uuid.uuid4() returns
Uuid(n) == <<"uuid", n>>
ScanWindow == 200

MinOf(S) == CHOOSE x \in S : \A y \in S : x <= y

\* variant of ChunkFrom whose spans overlap by one character
RECURSIVE ChunkFromOverlapping(_, _, _)
ChunkFromOverlapping(content, chunk_size, start) ==
    IF start >= Len(content) THEN <<>>
    ELSE LET end0 == start + chunk_size
             hi == IF end0 + ScanWindow < Len(content) THEN end0 + ScanWindow ELSE Len(content)
             sentence == {i \in end0..(hi - 1) : content[i + 1] \in {".", "!", "?"}}
             paragraph == {i \in end0..(hi - 1) : content[i + 1] = "\n" /\ content[i] = "\n"}
             end == IF end0 < Len(content)
                    THEN IF sentence # {} THEN MinOf(sentence) + 1
                         ELSE IF paragraph # {} THEN MinOf(paragraph) + 1
                         ELSE end0
                    ELSE end0
             last == IF end < Len(content) THEN end ELSE Len(content)
         IN  <<[start |-> start, end |-> end,
                chunk_text |-> Strip(SubSeq(content, start + 1, last))]>>
                 \o ChunkFromOverlapping(content, chunk_size,
                                         IF end - 1 > start THEN end - 1 ELSE end)

\* variant of ChunkFrom that looks for a paragraph break before a sentence end
RECURSIVE ChunkFromParagraphFirst(_, _, _)
ChunkFromParagraphFirst(content, chunk_size, start) ==
    IF start >= Len(content) THEN <<>>
    ELSE LET end0 == start + chunk_size
             hi == IF end0 + ScanWindow < Len(content) THEN end0 + ScanWindow ELSE Len(content)
             sentence == {i \in end0..(hi - 1) : content[i + 1] \in {".", "!", "?"}}
             paragraph == {i \in end0..(hi - 1) : content[i + 1] = "\n" /\ content[i] = "\n"}
             end == IF end0 < Len(content)
                    THEN IF paragraph # {} THEN MinOf(paragraph) + 1
                         ELSE IF sentence # {} THEN MinOf(sentence) + 1
                         ELSE end0
                    ELSE end0
             last == IF end < Len(content) THEN end ELSE Len(content)
         IN  <<[start |-> start, end |-> end,
                chunk_text |-> Strip(SubSeq(content, start + 1, last))]>>
                 \o ChunkFromParagraphFirst(content, chunk_size, end)

\* variant of ChunkFrom whose loop runs while start <= len(content): one more
\* iteration at the end of the content
RECURSIVE ChunkFromInclusive(_, _, _)
ChunkFromInclusive(content, chunk_size, start) ==
    IF start > Len(content) THEN <<>>
    ELSE LET end0 == start + chunk_size
             hi == IF end0 + ScanWindow < Len(content) THEN end0 + ScanWindow ELSE Len(content)
             sentence == {i \in end0..(hi - 1) : content[i + 1] \in {".", "!", "?"}}
             paragraph == {i \in end0..(hi - 1) : content[i + 1] = "\n" /\ content[i] = "\n"}
             end == IF end0 < Len(content)
                    THEN IF sentence # {} THEN MinOf(sentence) + 1
                         ELSE IF paragraph # {} THEN MinOf(paragraph) + 1
                         ELSE end0
                    ELSE end0
             last == IF end < Len(content) THEN end ELSE Len(content)
         IN  <<[start |-> start, end |-> end,
                chunk_text |-> Strip(SubSeq(content, start + 1, last))]>>
                 \o ChunkFromInclusive(content, chunk_size, end)

\* The while loop of _chunk_document from offset `start` on: one record per
\* iteration, with the span content[start:end] it cut and the stripped text.
\* Offsets are 0-based as in the code; content[i] is written content[i + 1].
RECURSIVE ChunkFrom(_, _, _)
ChunkFrom(content, chunk_size, start) ==
    IF start >= Len(content) THEN <<>>
    ELSE LET end0 == start + chunk_size
             hi == IF end0 + ScanWindow < Len(content) THEN end0 + ScanWindow ELSE Len(content)
             sentence == {i \in end0..(hi - 1) : content[i + 1] \in {".", "!", "?"}}
             paragraph == {i \in end0..(hi - 1) : content[i + 1] = "\n" /\ content[i] = "\n"}
             end == IF end0 < Len(content)
                    THEN IF sentence # {} THEN MinOf(sentence) + 1
                         ELSE IF paragraph # {} THEN MinOf(paragraph) + 1
                         ELSE end0
                    ELSE end0
             last == IF end < Len(content) THEN end ELSE Len(content)
         IN  <<[start |-> start, end |-> end,
                chunk_text |-> Strip(SubSeq(content, start + 1, last))]>>
                 \o ChunkFrom(content, chunk_size, end)

\* RAGService._chunk_document: the stripped texts that are not empty, in order
ChunkDocument(content, chunk_size) ==
    LET Texts(kept) == [i \in 1..Len(kept) |-> kept[i].chunk_text]
    IN  Texts(SelectSeq(ChunkFrom(content, chunk_size, 0), LAMBDA it : it.chunk_text # <<>>))

\* variant of DocChunksFrom that numbers a chunk by the iteration of the loop
RECURSIVE DocChunksByIteration(_, _, _, _, _)
DocChunksByIteration(iterations, doc_id, i, chunk_order, n) ==
    IF i > Len(iterations) THEN <<>>
    ELSE IF iterations[i].chunk_text # <<>>
    THEN <<[id |-> Uuid(n + 1), document_id |-> doc_id,
            content |-> iterations[i].chunk_text, order |-> i - 1]>>
             \o DocChunksByIteration(iterations, doc_id, i + 1, chunk_order + 1, n + 1)
    ELSE DocChunksByIteration(iterations, doc_id, i + 1, chunk_order, n)

\* DocumentService._chunk_document over the iterations i.. of the same loop:
\* a chunk record is appended, and chunk_order advanced, for the texts that
\* are not empty; n: the uuid4 values drawn so far
RECURSIVE DocChunksFrom(_, _, _, _, _)
DocChunksFrom(iterations, doc_id, i, chunk_order, n) ==
    IF i > Len(iterations) THEN <<>>
    ELSE IF iterations[i].chunk_text # <<>>
    THEN <<[id |-> Uuid(n + 1), document_id |-> doc_id,
            content |-> iterations[i].chunk_text, order |-> chunk_order]>>
             \o DocChunksFrom(iterations, doc_id, i + 1, chunk_order + 1, n + 1)
    ELSE DocChunksFrom(iterations, doc_id, i + 1, chunk_order, n)

\* DocumentService._chunk_document(content, doc_id, chunk_size)
DocChunkDocument(content, doc_id, chunk_size, n) ==
    DocChunksFrom(ChunkFrom(content, chunk_size, 0), doc_id, 1, 0, n)

\* the embedding the hosted model returns for a text
Embed(text) == <<"emb", text>>

\* f"{doc_id}_chunk_{i}"
ChunkDocId(doc_id, i) == <<doc_id, "_chunk_", i>>

\* the loop of add_document over chunks i..Len(chunks) (i is 1-based here,
\* the chunk index of the code is i - 1)
RECURSIVE AddChunks(_, _, _, _, _, _, _, _)
AddChunks(store, cfg, env, doc_id, title, source_type, chunks, i) ==
    IF i > Len(chunks) THEN store
    ELSE LET chunk_doc_id == ChunkDocId(doc_id, i - 1)
             chunk_metadata == [document_id |-> doc_id, chunk_id |-> chunk_doc_id,
                                title |-> title, source_type |-> source_type,
                                chunk_order |-> i - 1]
             s1 == VSAddDocument(store, cfg, env.ctorOk, env.upsertOk, chunk_doc_id,
                                 chunks[i], Embed(chunks[i]), chunk_metadata)
         IN  AddChunks(s1, cfg, env, doc_id, title, source_type, chunks, i + 1)

\* env: ctorOk, embedOk, upsertOk : BOOLEAN
AddDocument(store, cfg, env, doc_id, title, content, source_type) ==
    LET s1 == EnsureInitialized(store, cfg, env.ctorOk)
        chunks == ChunkDocument(content, ChunkSize)
    IN  IF ~env.embedOk THEN [store |-> s1, ok |-> FALSE]
        ELSE [store |-> AddChunks(s1, cfg, env, doc_id, title, source_type, chunks, 1),
              ok |-> TRUE]

(***************************************************************************)
(* Inputs of the model                                                     *)
(***************************************************************************)
\* documents offered for ingestion
Docs ==
    { [id |-> "d1", title |-> "A", content |-> <<"a", ".">>],
      [id |-> "d2", title |-> "B", content |-> <<" ", "b">>],
      [id |-> "d3", title |-> "",  content |-> <<"c">>] }

\* the documents ingested ahead of the pipeline and chat scenarios: one with
\* a title, one without
ChatDocs == {d \in Docs : d.id \in {"d1", "d3"}}

Queries == { <<"q">> }
Modes == {"full_book", "selected_text"}
SelectedTexts == { NONE, <<>>, <<" ">>, <<"s">> }
Limits == 1..MaxLimit

\* str(e) of the exceptions litellm.completion raises
ErrorStrings ==
    { <<"4", "2", "9">>,
      <<"Q", "u", "o", "t", "a">>,
      <<"R", "A", "T", "E">>,
      <<"d", "o", "w", "n">>,
      <<"g", "e", "n", "e", "r", "a", "t", "e">> }

Answer == <<"answer">>

LlmOutcomes ==
    { [kind |-> "ok", text |-> t] : t \in {Answer, <<>>, NONE} }
        \cup { [kind |-> "error", err |-> e] : e \in ErrorStrings }

\* context items retrieve_context can return: the selected-text item and the
\* items of the chunks of Docs
SelectedItem(T) ==
    [document_id |-> SelectedDocId, content |-> T,
     metadata |-> [source_type |-> "USER_SELECTION"], similarity_score |-> SelectedScore]

ChunkItem(d) ==
    [document_id |-> d.id, content |-> Strip(d.content),
     metadata |-> [title |-> d.title, source_type |-> "BOOK_FULL", chunk_order |-> 0],
     similarity_score |-> 90]

ContextItems == {SelectedItem(<<"s">>)} \cup {ChunkItem(d) : d \in Docs}

ContextLists == UNION {[1..n -> ContextItems] : n \in 0..MaxCtx}

NoCall == [called |-> FALSE]
NoChat == [called |-> FALSE, n |-> 0]

ChatHistories == { <<>>, <<[role |-> "user", content |-> <<"h">>]>> }

(***************************************************************************)
(* Initial state: the process has started, nothing has been called         *)
(***************************************************************************)
Init ==
    /\ settings \in [qdrant_configured : BOOLEAN, fk_enforced : BOOLEAN]
    /\ vs = VectorStoreInit
    /\ rc = NoCall
    /\ gen = NoCall
    /\ turn = [state |-> "Idle"]
    /\ db = [sessions |-> {}, messages |-> <<>>, clock |-> 0, inserted |-> 0]
    /\ nextId = 0
    /\ issued = {}
    /\ resp = NoChat
    /\ hist = NoCall
    /\ ck = NoCall
    /\ docs = [documents |-> <<>>, chunks |-> {}]
    /\ ing = [called |-> FALSE, n |-> 0]
    /\ tool = NoCall
    /\ route = [called |-> FALSE, n |-> 0]
    /\ kit = [called |-> FALSE, n |-> 0, threads |-> <<>>]
    /\ threads = [threads |-> {}, items |-> {}]
    /\ removal = NoCall
    /\ pager = NoCall
    /\ conc = NoCall

(***************************************************************************)
(* Direct calls of the RAGService methods                                  *)
(***************************************************************************)
\* rag_service.add_document(doc.id, doc.title, doc.content)
IngestCall(doc, env) ==
    /\ vs' = AddDocument(vs, settings, env, doc.id, doc.title, doc.content, "BOOK_FULL").store
    /\ UNCHANGED <<settings, rc, gen, pipeVars, dbVars, chatVars, auxVars>>

\* rag_service.retrieve_context(query, mode, selected_text, limit)
RetrieveCall(query, mode, selected_text, limit, env) ==
    LET r == RetrieveContext(query, mode, selected_text, limit, vs, settings, env)
    IN  /\ rc' = [called |-> TRUE, query |-> query, mode |-> mode,
                  selected_text |-> selected_text, limit |-> limit, env |-> env,
                  vsBefore |-> vs, vsAfter |-> r.store, items |-> r.items,
                  raised |-> r.raised, embedCalls |-> r.embedCalls,
                  searchCalls |-> r.searchCalls]
        /\ vs' = r.store
        /\ UNCHANGED <<settings, gen, pipeVars, dbVars, chatVars, auxVars>>

\* rag_service.generate_response(query, context_items, chat_history)
GenerateCall(query, context_items, chat_history, llm) ==
    LET g == GenerateResponse(query, context_items, chat_history, llm)
    IN  /\ gen' = [called |-> TRUE, query |-> query, context_items |-> context_items,
                   chat_history |-> chat_history, llm |-> llm, text |-> g.text,
                   messages |-> g.messages, raised |-> g.raised, llmCalls |-> g.llmCalls]
        /\ UNCHANGED <<settings, vs, rc, pipeVars, dbVars, chatVars, auxVars>>

\* ingestion precedes the retrieval under observation
Ingest ==
    /\ ~rc.called
    /\ \E doc \in Docs, env \in [ctorOk : BOOLEAN, embedOk : BOOLEAN, upsertOk : BOOLEAN] :
           IngestCall(doc, env)

Retrieve ==
    /\ ~rc.called
    /\ \E query \in Queries, mode \in Modes, T \in SelectedTexts, limit \in Limits :
           \E env \in RetrieveEnvs(vs, limit) :
               RetrieveCall(query, mode, T, limit, env)

Generate ==
    /\ ~gen.called
    /\ \E query \in Queries, items \in ContextLists, history \in ChatHistories,
              llm \in LlmOutcomes :
           GenerateCall(query, items, history, llm)

\* retrieve_context against a vector store filled by add_document
NextRetrieve == Ingest \/ Retrieve
SpecRetrieve == Init /\ [][NextRetrieve]_vars

\* generate_response over the context lists retrieval can produce
NextGenerate == Generate
SpecGenerate == Init /\ [][NextGenerate]_vars

(***************************************************************************)
(* Properties of retrieve_context (checked under SpecRetrieve)             *)
(***************************************************************************)
SelectedCall == rc.called /\ rc.mode = "selected_text"

IsSelectedResult(items, T) ==
    /\ Len(items) = 1
    /\ items[1].content = T
    /\ items[1].similarity_score = SelectedScore
    /\ items[1].document_id = SelectedDocId

\* C6 as stated: in selected_text mode, for every query and every selected
\* text T (the empty string included), retrieve_context returns exactly one
\* item with content T, score 1.0 and document id 'selected_text'.
C6_EverySelectedText ==
    (SelectedCall /\ rc.selected_text # NONE) => IsSelectedResult(rc.items, rc.selected_text)

\* C6 amended: in selected_text mode, for every query and every NON-EMPTY
\* selected text T, retrieve_context returns exactly one item whose content
\* is T verbatim, whose score is 1.0 and whose document id is 'selected_text'.
C6_NonEmptySelectedText ==
    (SelectedCall /\ Truthy(rc.selected_text)) => IsSelectedResult(rc.items, rc.selected_text)

\* a whitespace-only selection is returned untouched although the index holds points
C6_Witness ==
    /\ SelectedCall
    /\ rc.selected_text = <<" ">>
    /\ rc.items[1].content = <<" ">>
    /\ DOMAIN rc.vsBefore.points # {}

NoIndexUse ==
    /\ rc.embedCalls = 0
    /\ rc.searchCalls = 0
    /\ rc.vsAfter = rc.vsBefore
    /\ vs = rc.vsBefore

\* C7 as stated: whenever retrieve_context is called with mode selected_text
\* it calls neither the embedding service nor the vector index and leaves the
\* vector store, its initialisation state included, unchanged.
C7_SelectedNeverTouchesIndex == SelectedCall => NoIndexUse

\* C7 amended: whenever retrieve_context is called with mode selected_text
\* AND a non-empty selected text, it calls neither the embedding service nor
\* the vector index and leaves the vector store unchanged.
C7_NonEmptySelectedNeverTouchesIndex ==
    (SelectedCall /\ Truthy(rc.selected_text)) => NoIndexUse

\* a selected-text call on a store that was never initialised leaves it so
C7_Witness ==
    /\ SelectedCall
    /\ Truthy(rc.selected_text)
    /\ ~rc.vsBefore.initialized
    /\ ~vs.initialized

\* C8: in full_book mode retrieve_context never raises; a failed embedding
\* call or a failed search gives the empty list; otherwise the items are the
\* hits of the index, one item per hit, in the index's order, at most `limit`.
C8_FullBookRetrieval ==
    (rc.called /\ rc.mode = "full_book") =>
        /\ ~rc.raised
        /\ (~rc.env.embedOk \/ ~rc.env.searchOk) => rc.items = <<>>
        /\ (rc.env.embedOk /\ rc.env.searchOk) =>
              /\ Len(rc.items) = Len(rc.env.answer)
              /\ Len(rc.items) <= rc.limit
              /\ \A i \in 1..Len(rc.items) :
                    LET point == rc.vsBefore.points[rc.env.answer[i][1]]
                    IN  /\ rc.items[i].content = point.payload.content
                        /\ rc.items[i].document_id = point.payload.metadata.document_id
                        /\ rc.items[i].similarity_score = rc.env.answer[i][2]

\* the index holds more points than the limit and the call returns `limit` items
C8_Witness ==
    /\ rc.called
    /\ rc.mode = "full_book"
    /\ Cardinality(DOMAIN rc.vsBefore.points) > rc.limit
    /\ Len(rc.items) = rc.limit
    /\ rc.items[1].document_id # rc.items[rc.limit].document_id

(***************************************************************************)
(* Properties of generate_response (checked under SpecGenerate)            *)
(***************************************************************************)
LlmFailed == gen.called /\ gen.llm.kind = "error"

\* C9: when the LLM call fails with an error recognised as rate limiting,
\* the result is the fixed high-demand message, with or without context.
C9_RateLimitFirst ==
    (LlmFailed /\ IsRateLimit(gen.llm.err)) => gen.text = HighDemand

\* a rate-limit failure with titled context still gives the high-demand message
C9_Witness ==
    /\ LlmFailed
    /\ IsRateLimit(gen.llm.err)
    /\ gen.context_items # <<>>
    /\ Get(gen.context_items[1].metadata, "title", "") = "A"
    /\ gen.text = HighDemand

\* the titles of the first three items, read off the items
TitleOf(item) == IF "title" \in DOMAIN item.metadata THEN item.metadata.title ELSE ""

TitlesOfFirstThree(items) ==
    LET n == IF Len(items) < 3 THEN Len(items) ELSE 3
    IN  SelectSeq([i \in 1..n |-> TitleOf(items[i])], LAMBDA t : t # "")

\* C10 as stated: when the LLM call fails with an error that is not rate
\* limiting and the context list is non-empty, the result is the best-effort
\* message naming the titles of (up to 3) context items, for every such list.
C10_BestEffortForEveryContext ==
    (LlmFailed /\ ~IsRateLimit(gen.llm.err) /\ gen.context_items # <<>>) =>
        gen.text = BestEffort(TitlesOfFirstThree(gen.context_items))

\* C10 amended: ... and at least one of the first three context items has a
\* non-empty title, the result is the best-effort message naming the
\* non-empty titles of the first three items; when none of the first three
\* items has a title the result is the fixed refusal string.
C10_BestEffortWhenTitled ==
    (LlmFailed /\ ~IsRateLimit(gen.llm.err) /\ gen.context_items # <<>>) =>
        IF TitlesOfFirstThree(gen.context_items) # <<>>
        THEN gen.text = BestEffort(TitlesOfFirstThree(gen.context_items))
        ELSE gen.text = Refusal

\* four titled items, a fourth title that is not named
C10_Witness ==
    /\ LlmFailed
    /\ ~IsRateLimit(gen.llm.err)
    /\ Len(gen.context_items) = 4
    /\ TitleOf(gen.context_items[4]) = "B"
    /\ gen.text = BestEffort(<<"A", "A">>)

\* C11: generate_response returns the refusal string when the completion text
\* is empty or None, and when the completion call fails with an error that is
\* not taken for a rate limit while the context list is empty (the case of a
\* turn whose retrieval degraded to nothing and whose generation failed).
C11_RefusalCases ==
    gen.called =>
        /\ (gen.llm.kind = "ok" /\ gen.llm.text \in {<<>>, NONE}) => gen.text = Refusal
        /\ (gen.llm.kind = "error" /\ ~IsRateLimit(gen.llm.err) /\ gen.context_items = <<>>)
              => gen.text = Refusal

\* the completion call failed with "down" and nothing had been retrieved
C11_Witness ==
    /\ gen.called
    /\ gen.llm.kind = "error"
    /\ gen.llm.err = <<"d", "o", "w", "n">>
    /\ gen.context_items = <<>>
    /\ gen.text = Refusal
    /\ ~gen.raised

(***************************************************************************)
(* The chunkers: RAGService._chunk_document with the loop of add_document, *)
(* and DocumentService._chunk_document                                     *)
(***************************************************************************)
ChunkAlphabet == {"a", " ", ".", "\n"}

\* every content of up to MaxContent characters
ChunkContents == UNION {[1..n -> ChunkAlphabet] : n \in 0..MaxContent}

ChunkSizes == 1..MaxChunkSize

\* the calls tried: the enumerated contents with every size, and two contents
\* whose boundary lies beyond the 200 characters the first search looks ahead
ChunkInputs ==
    (ChunkContents \X ChunkSizes)
        \cup { <<LongText(ScanWindow + 3) \o <<".">>, 3>>,
               <<LongText(ScanWindow + 3) \o <<"\n", "\n">>, 3>> }

\* an initialised in-memory store, as add_document finds it after _ensure_initialized
MemoryStore == [initialized |-> TRUE, client |-> "memory", points |-> <<>>]

\* _chunk_document(content, chunk_size) of both services on one content, and
\* the loop of add_document over the chunks
ChunkCall(content, chunk_size) ==
    /\ ck' = [called |-> TRUE, content |-> content, chunk_size |-> chunk_size,
              spans |-> ChunkFrom(content, chunk_size, 0),
              chunks |-> ChunkDocument(content, chunk_size),
              doc_chunks |-> DocChunkDocument(content, "doc", chunk_size, 0),
              store |-> AddChunks(MemoryStore, settings,
                                  [ctorOk |-> TRUE, embedOk |-> TRUE, upsertOk |-> TRUE],
                                  "doc", "T", "BOOK_FULL",
                                  ChunkDocument(content, chunk_size), 1)]
    /\ UNCHANGED <<vsVars, callVars, pipeVars, dbVars, chatVars, docs, ing, tool, routeVars, lateVars>>

Chunk ==
    /\ ~ck.called
    /\ \E input \in ChunkInputs : ChunkCall(input[1], input[2])

NextChunk == Chunk
SpecChunk == Init /\ [][NextChunk]_vars

\* the chunk_order values of the points add_document stored
StoredOrders(store) == {store.points[p].payload.metadata.chunk_order : p \in DOMAIN store.points}

\* C13: every chunk is non-empty after trimming, and the order values of the
\* chunks are 0, 1, ..., k-1 in output order, whatever empty spans were dropped.
C13_ChunksNonEmptyDenseOrder ==
    ck.called =>
        /\ \A i \in 1..Len(ck.chunks) : Strip(ck.chunks[i]) # <<>>
        /\ \A i \in 1..Len(ck.doc_chunks) :
              /\ Strip(ck.doc_chunks[i].content) # <<>>
              /\ ck.doc_chunks[i].order = i - 1
        /\ Cardinality(DOMAIN ck.store.points) = Len(ck.chunks)
        /\ StoredOrders(ck.store) = 0..(Len(ck.chunks) - 1)
        /\ \A i \in 1..Len(ck.chunks) :
              ck.store.points[GenerateUuid(ChunkDocId("doc", i - 1))].payload.metadata.chunk_order
                  = i - 1

\* an all-whitespace span was dropped between two chunks
C13_Witness ==
    /\ ck.called
    /\ Len(ck.spans) = 3
    /\ ck.spans[2].chunk_text = <<>>
    /\ Len(ck.doc_chunks) = 2
    /\ ck.doc_chunks[2].order = 1

\* whitespace only between the offsets a (inclusive) and b (exclusive), 0-based
AllWhitespace(content, a, b) == \A k \in (a + 1)..b : content[k] \in Whitespace

\* the end of a span as a position in the content: a slice stops at len(content)
Clamp(content, end) == IF end < Len(content) THEN end ELSE Len(content)

\* the text cut out of the span [start, end): the span without the whitespace
\* at its two edges
TrimmedSpan(content, start, end) ==
    IF AllWhitespace(content, start, end) THEN <<>>
    ELSE LET a == CHOOSE x \in start..(end - 1) :
                     content[x + 1] \notin Whitespace /\ AllWhitespace(content, start, x)
             b == CHOOSE y \in (start + 1)..end :
                     content[y] \notin Whitespace /\ AllWhitespace(content, y, end)
         IN  SubSeq(content, a + 1, b)

\* C14: the chunks are the trimmed texts of consecutive, pairwise disjoint
\* spans taken left to right that cover the whole content: the first span
\* starts at 0, each span starts where the one before ended, the last one
\* reaches the end; the chunks in order are the spans without the whitespace
\* at their edges, the all-whitespace spans left out.
C14_ChunksPartitionContent ==
    ck.called =>
        LET n == Len(ck.spans)
            trimmed == [i \in 1..n |->
                          TrimmedSpan(ck.content, ck.spans[i].start,
                                      Clamp(ck.content, ck.spans[i].end))]
        IN  /\ (n = 0) <=> (ck.content = <<>>)
            /\ n > 0 => ck.spans[1].start = 0 /\ ck.spans[n].end >= Len(ck.content)
            /\ \A i \in 1..n : ck.spans[i].start < ck.spans[i].end
            /\ \A i \in 1..(n - 1) : ck.spans[i + 1].start = ck.spans[i].end
            /\ ck.chunks = SelectSeq(trimmed, LAMBDA t : t # <<>>)
            /\ [i \in 1..Len(ck.doc_chunks) |-> ck.doc_chunks[i].content] = ck.chunks

\* a content cut into two spans, whitespace trimmed at the edge between them
C14_Witness ==
    /\ ck.called
    /\ ck.content = <<"a", " ", " ", "a">>
    /\ ck.chunk_size = 2
    /\ ck.chunks = << <<"a">>, <<"a">> >>

\* the offsets of the 200 characters from offset `from` on, within the content
CutWindow(content, from) == {i \in from..(from + 199) : i < Len(content)}

\* C24: where more than chunk_size characters remain after a span's start,
\* the span ends right after the first '.', '!' or '?' of the 200 characters
\* from start + chunk_size on; else right after the first blank-line boundary
\* of that window; else at start + chunk_size.  No span is longer than
\* chunk_size + 200, and a content of at most chunk_size characters gives
\* one chunk, none when it is blank.
C24_CutPlacement ==
    ck.called =>
        /\ \A k \in 1..Len(ck.spans) :
              LET start == ck.spans[k].start
                  end0 == start + ck.chunk_size
                  sentence == {i \in CutWindow(ck.content, end0) :
                                  ck.content[i + 1] \in {".", "!", "?"}}
                  paragraph == {i \in CutWindow(ck.content, end0) :
                                   ck.content[i + 1] = "\n" /\ ck.content[i] = "\n"}
              IN  /\ end0 < Len(ck.content) =>
                        /\ sentence # {} =>
                              /\ ck.spans[k].end - 1 \in sentence
                              /\ \A i \in sentence : ck.spans[k].end - 1 <= i
                        /\ (sentence = {} /\ paragraph # {}) =>
                              /\ ck.spans[k].end - 1 \in paragraph
                              /\ \A i \in paragraph : ck.spans[k].end - 1 <= i
                        /\ (sentence = {} /\ paragraph = {}) => ck.spans[k].end = end0
                  /\ Clamp(ck.content, ck.spans[k].end) - start <= ck.chunk_size + 200
        /\ Len(ck.content) <= ck.chunk_size =>
              Len(ck.chunks) = IF AllWhitespace(ck.content, 0, Len(ck.content)) THEN 0 ELSE 1

\* a sentence end lies beyond the window and a later one within the next
\* window: the first span is cut at chunk_size, the second after the full stop
C24_Witness ==
    /\ ck.called
    /\ Len(ck.content) = ScanWindow + 4
    /\ ck.content[Len(ck.content)] = "."
    /\ ck.chunk_size = 3
    /\ ck.spans[1].end = 3
    /\ ck.spans[2].end = Len(ck.content)

\* C26: a call of the chunker with chunk_size >= 1 returns; every iteration
\* of its loop begins at an offset below the content length and strictly above
\* the offset of the iteration before, so there are at most len(content)
\* iterations, and at most that many chunks.
C26_ChunkerTerminates ==
    (ck.called /\ ck.chunk_size >= 1) =>
        /\ \A i \in 1..Len(ck.spans) :
              /\ ck.spans[i].start < Len(ck.content)
              /\ ck.spans[i].start + ck.chunk_size <= ck.spans[i].end
        /\ \A i \in 1..(Len(ck.spans) - 1) : ck.spans[i].start < ck.spans[i + 1].start
        /\ Len(ck.spans) <= Len(ck.content)
        /\ Len(ck.chunks) <= Len(ck.spans)
        /\ Len(ck.doc_chunks) <= Len(ck.spans)

\* chunk_size 1 on a content of MaxContent characters: one iteration per character
C26_Witness ==
    /\ ck.called
    /\ ck.chunk_size = 1
    /\ Len(ck.content) = MaxContent
    /\ Len(ck.spans) = MaxContent

(***************************************************************************)
(* RAGService.process_query / process_request                              *)
(***************************************************************************)
DefaultLimit == 5
SnippetLimit == 200

\* variant of ContentSnippet that already cuts a content of exactly 200 characters
ContentSnippetAtLimit(content) ==
    IF Len(content) >= SnippetLimit
    THEN SubSeq(content, 1, SnippetLimit) \o <<".", ".", ".">>
    ELSE content

\* item["content"][:200] + "..." if len(item["content"]) > 200 else item["content"]
ContentSnippet(content) ==
    IF Len(content) > SnippetLimit
    THEN SubSeq(content, 1, SnippetLimit) \o <<".", ".", ".">>
    ELSE content

\* one context item formatted as a reference record; chunk ids are token
\* sequences, the default "" is the empty one
ToReference(item) ==
    [document_id |-> Get(item, "document_id", ""),
     chunk_id |-> Get(Get(item, "metadata", <<>>), "chunk_id", <<>>),
     content_snippet |-> ContentSnippet(Get(item, "content", <<>>)),
     similarity_score |-> Get(item, "similarity_score", 0)]

ToReferences(context_items) ==
    [i \in 1..Len(context_items) |-> ToReference(context_items[i])]

\* process_query in one piece; env.llm is the outcome of the completion call.
\* The history handed to generate_response is always the empty list.
ProcessQuery(query, mode, selected_text, thread_id, store, cfg, env) ==
    LET Returned(r, g) ==
            [response |-> g.text, context_items |-> r.items, store |-> r.store,
             raised |-> r.raised \/ g.raised, messages |-> g.messages,
             embedCalls |-> r.embedCalls, searchCalls |-> r.searchCalls,
             llmCalls |-> IF r.raised THEN 0 ELSE g.llmCalls]
        Generating(r) == Returned(r, GenerateResponse(query, r.items, <<>>, env.llm))
    IN  Generating(RetrieveContext(query, mode, selected_text, DefaultLimit, store, cfg, env))

\* process_request in one piece
ProcessRequest(session_id, message, mode, selected_text, store, cfg, env) ==
    LET Formatted(pq) == [pq EXCEPT !.context_items = ToReferences(pq.context_items)]
    IN  Formatted(ProcessQuery(message, mode, selected_text, session_id, store, cfg, env))

(***************************************************************************)
(* The turn of the pipeline, step by step                                  *)
(***************************************************************************)
PipelineApis == {"process_request", "process_query"}
\* selected texts of a turn: none, a short one, one of exactly 200 characters
\* and one of 201
PipelineSelectedTexts == { NONE, <<"s">>, LongText(SnippetLimit), LongText(SnippetLimit + 1) }

\* the caller enters process_request / process_query
PipelineSubmit(api, query, mode, selected_text) ==
    /\ turn.state \in {"Idle", "Completed"}
    /\ turn' = [state |-> "Received", api |-> api, query |-> query, mode |-> mode,
                selected_text |-> selected_text]
    /\ UNCHANGED <<vsVars, callVars, dbVars, chatVars, auxVars>>

\* process_query calls retrieve_context
PipelineStartRetrieve ==
    /\ turn.state = "Received"
    /\ turn' = [turn EXCEPT !.state = "Retrieving"]
    /\ UNCHANGED <<vsVars, callVars, dbVars, chatVars, auxVars>>

\* retrieve_context returns (or raises) and process_query calls generate_response
PipelineRetrieved(env) ==
    /\ turn.state = "Retrieving"
    /\ LET Done(r) ==
               /\ turn' = [state |-> IF r.raised THEN "Failed" ELSE "Generating",
                           api |-> turn.api, query |-> turn.query, mode |-> turn.mode,
                           selected_text |-> turn.selected_text, items |-> r.items,
                           embedCalls |-> r.embedCalls, searchCalls |-> r.searchCalls,
                           failed |-> IF r.embedCalls = 0 THEN "none"
                                      ELSE IF ~env.embedOk THEN "embed"
                                      ELSE IF ~env.searchOk THEN "search"
                                      ELSE "none"]
               /\ vs' = r.store
       IN  Done(RetrieveContext(turn.query, turn.mode, turn.selected_text, DefaultLimit,
                                vs, settings, env))
    /\ UNCHANGED <<settings, callVars, dbVars, chatVars, auxVars>>

\* generate_response returns (or raises); the references are formatted and
\* the pair is handed to the caller
PipelineGenerated(llm) ==
    /\ turn.state = "Generating"
    /\ LET g == GenerateResponse(turn.query, turn.items, <<>>, llm)
       IN  turn' = [state |-> IF g.raised THEN "Failed" ELSE "Completed",
                    api |-> turn.api, query |-> turn.query, mode |-> turn.mode,
                    selected_text |-> turn.selected_text, items |-> turn.items,
                    embedCalls |-> turn.embedCalls, searchCalls |-> turn.searchCalls,
                    failed |-> turn.failed, llmCalls |-> g.llmCalls,
                    llm |-> llm, response |-> g.text,
                    references |-> IF turn.api = "process_request"
                                   THEN ToReferences(turn.items) ELSE turn.items]
    /\ UNCHANGED <<vsVars, callVars, dbVars, chatVars, auxVars>>

\* the index is filled before the first turn is submitted
Indexed ==
    /\ turn.state = "Idle"
    /\ \E doc \in ChatDocs, env \in [ctorOk : BOOLEAN, embedOk : BOOLEAN, upsertOk : BOOLEAN] :
           IngestCall(doc, env)

Submit ==
    \E api \in PipelineApis, query \in Queries, mode \in Modes, T \in PipelineSelectedTexts :
        PipelineSubmit(api, query, mode, T)

Retrieved == \E env \in RetrieveEnvs(vs, DefaultLimit) : PipelineRetrieved(env)

Generated == \E llm \in LlmOutcomes : PipelineGenerated(llm)

PipelineStep == PipelineStartRetrieve \/ Retrieved \/ Generated

\* the pipeline against a vector store filled by add_document; a call that has
\* been entered runs on: the code between the steps is straight-line
NextPipeline == Indexed \/ Submit \/ PipelineStartRetrieve \/ Retrieved \/ Generated
SpecPipeline == Init /\ [][NextPipeline]_vars /\ WF_vars(PipelineStep)

(***************************************************************************)
(* Properties of the pipeline (checked under SpecPipeline)                 *)
(***************************************************************************)
TurnOrder ==
    { <<"Idle", "Received">>, <<"Received", "Retrieving">>, <<"Retrieving", "Generating">>,
      <<"Generating", "Completed">>, <<"Completed", "Received">> }

IsText(t) == t # NONE /\ Len(t) > 0

\* C2: a turn moves Received -> Retrieving -> Generating -> Completed and in
\* no other way; it never reaches Failed; a completed turn carries a text
\* response; and every received turn is eventually completed.
C2_TurnLifecycle ==
    /\ [][turn'.state # turn.state => <<turn.state, turn'.state>> \in TurnOrder]_vars
    /\ [](turn.state # "Failed")
    /\ [](turn.state = "Completed" => IsText(turn.response))
    /\ [](turn.state = "Received" => <>(turn.state = "Completed"))

\* a turn whose retrieval gave nothing and whose completion call failed is completed
C2_Witness ==
    /\ turn.state = "Completed"
    /\ turn.mode = "full_book"
    /\ turn.items = <<>>
    /\ turn.llm.kind = "error"
    /\ turn.response = Refusal

\* C12: process_request maps the context items one to one and in order to
\* reference records; a record's content_snippet is the item's content when
\* that has at most 200 characters, else its first 200 characters and "...".
C12_ReferenceMapping ==
    (turn.state = "Completed" /\ turn.api = "process_request") =>
        /\ Len(turn.references) = Len(turn.items)
        /\ \A i \in 1..Len(turn.items) :
              /\ turn.references[i].document_id = turn.items[i].document_id
              /\ turn.references[i].similarity_score = turn.items[i].similarity_score
              /\ Len(turn.items[i].content) <= 200
                    => turn.references[i].content_snippet = turn.items[i].content
              /\ Len(turn.items[i].content) > 200
                    => /\ Len(turn.references[i].content_snippet) = 203
                       /\ \A k \in 1..200 :
                             turn.references[i].content_snippet[k] = turn.items[i].content[k]
                       /\ \A k \in 201..203 : turn.references[i].content_snippet[k] = "."

\* a selected text of 201 characters was cut to 200 characters and "..."
C12_Witness ==
    /\ turn.state = "Completed"
    /\ turn.api = "process_request"
    /\ Len(turn.items) = 1
    /\ Len(turn.items[1].content) = 201
    /\ Len(turn.references[1].content_snippet) = 203

\* C28: every reference process_request gives for a chunk found in the index
\* carries the chunk_id and the document_id stored with that chunk by
\* add_document.
C28_ReferenceCarriesChunkId ==
    (turn.state = "Completed" /\ turn.api = "process_request" /\ turn.searchCalls = 1) =>
        \A i \in 1..Len(turn.references) :
            \E p \in DOMAIN vs.points :
                /\ vs.points[p].payload.content = turn.items[i].content
                /\ vs.points[p].payload.metadata.document_id = turn.references[i].document_id
                /\ vs.points[p].payload.metadata.chunk_id = turn.references[i].chunk_id

\* the values generate_response can give after a failed completion call
LlmFallbacks(items) == {HighDemand, Refusal, BestEffort(FallbackTitles(items))}

\* C25: within one turn the embedding API, the vector search and the completion
\* API are each called at most once; a failed embedding or search call leaves
\* the turn with the empty context, a failed completion call leaves it with one
\* of the fallback texts, and the steps that follow call none of them again.
C25_AtMostOneCallPerService ==
    /\ [](turn.state \in {"Generating", "Completed"} =>
            /\ turn.embedCalls <= 1 /\ turn.searchCalls <= 1
            /\ turn.failed = "embed" => turn.items = <<>> /\ turn.searchCalls = 0
            /\ turn.failed = "search" => turn.items = <<>>)
    /\ [](turn.state = "Completed" =>
            /\ turn.llmCalls <= 1
            /\ turn.llm.kind = "error" => turn.response \in LlmFallbacks(turn.items))
    /\ [][(turn.state = "Generating" /\ turn'.state = "Completed") =>
            /\ turn'.embedCalls = turn.embedCalls
            /\ turn'.searchCalls = turn.searchCalls]_vars

\* a turn whose embedding call failed and whose completion call failed: one
\* call of each, no search
C25_Witness ==
    /\ turn.state = "Completed"
    /\ turn.failed = "embed"
    /\ turn.embedCalls = 1 /\ turn.searchCalls = 0 /\ turn.llmCalls = 1
    /\ turn.llm.kind = "error"

(***************************************************************************)
(* SessionService (services/session_service.py) over the relational store  *)
(***************************************************************************)
\* a session id a client made up
BogusSessionId == <<"test-session-123">>

\* get_session: the row, or None when there is none (or the query failed)
SessionExists(database, session_id) == session_id \in database.sessions

\* create_session; ok: the commit succeeded
CreateSession(database, n, ok) ==
    IF ok
    THEN [db |-> [database EXCEPT !.sessions = @ \cup {Uuid(n + 1)}], id |-> Uuid(n + 1),
          n |-> n + 1]
    ELSE [db |-> database, id |-> NONE, n |-> n]

\* variant of AddMessageToSession that reports True whatever the commit did
AddMessageToSessionBlind(database, cfg, session_id, message, sender_type, context_references, env) ==
    LET now == database.clock + env.tick
        accepted == env.ok /\ (cfg.fk_enforced => session_id \in database.sessions)
        row == [id |-> database.inserted + 1, session_id |-> session_id,
                sender_type |-> sender_type, content |-> message, timestamp |-> now,
                context_references |-> context_references]
    IN  [db |-> IF accepted
                THEN [database EXCEPT !.clock = now, !.inserted = @ + 1,
                                      !.messages = Append(@, row)]
                ELSE [database EXCEPT !.clock = now],
         result |-> TRUE]

\* add_message_to_session.  env.tick: what the server clock advanced since the
\* previous statement; env.ok: the commit met no error of its own.  The
\* foreign key messages.session_id -> sessions.id rejects the insert where the
\* backend enforces it.  The timestamp is the server's now().
AddMessageToSession(database, cfg, session_id, message, sender_type, context_references, env) ==
    LET now == database.clock + env.tick
        accepted == env.ok /\ (cfg.fk_enforced => session_id \in database.sessions)
        row == [id |-> database.inserted + 1, session_id |-> session_id,
                sender_type |-> sender_type, content |-> message, timestamp |-> now,
                context_references |-> context_references]
    IN  [db |-> IF accepted
                THEN [database EXCEPT !.clock = now, !.inserted = @ + 1,
                                      !.messages = Append(@, row)]
                ELSE [database EXCEPT !.clock = now],
         result |-> accepted]

\* variant of RowsOf that forgets the filter on session_id
RowsOfAnySession(database, session_id) == 1..Len(database.messages)

\* positions in the messages table of the rows of one session
RowsOf(database, session_id) ==
    {i \in 1..Len(database.messages) : database.messages[i].session_id = session_id}

\* the orders in which ORDER BY timestamp ASC may deliver the rows `rows`:
\* ascending by timestamp, rows of equal timestamp in any order
TimestampOrders(database, rows) ==
    {o \in [1..Cardinality(rows) -> rows] :
        /\ \A i, j \in 1..Cardinality(rows) : i # j => o[i] # o[j]
        /\ \A i \in 1..(Cardinality(rows) - 1) :
              database.messages[o[i]].timestamp <= database.messages[o[i + 1]].timestamp}

\* get_session_messages; order: the order the query delivered; ok: it returned
GetSessionMessages(database, session_id, order, ok) ==
    IF ~ok THEN <<>>
    ELSE [i \in 1..Len(order) |->
            LET msg == database.messages[order[i]]
            IN  [id |-> msg.id, sender_type |-> msg.sender_type, content |-> msg.content,
                 timestamp |-> msg.timestamp, context_references |-> msg.context_references]]

(***************************************************************************)
(* POST /chat (api/routes/chat.py)                                         *)
(***************************************************************************)
\* the fields pydantic requires of a ContextReference
ValidContextReference(ref) ==
    {"document_id", "chunk_id", "content_snippet", "similarity_score"} \subseteq DOMAIN ref

\* the validation at the top of chat_endpoint: the detail of the 400, or "ok"
ValidateChatRequest(req) ==
    IF ~Truthy(req.message) \/ Strip(req.message) = <<>>
    THEN "Message cannot be empty"
    ELSE IF req.mode \notin {"full_book", "selected_text"}
    THEN "Mode must be either 'full_book' or 'selected_text'"
    ELSE IF req.mode = "selected_text"
            /\ (~Truthy(req.selected_text) \/ Strip(req.selected_text) = <<>>)
    THEN "Selected text is required for 'selected_text' mode"
    ELSE "ok"

\* chat_endpoint from the first line to the response.
\* env: retrieval and completion outcomes (as for ProcessQuery) and, for the
\* two add_message_to_session calls, user and assistant : [ok, tick]
ChatEndpoint(req, database, n, store, cfg, env) ==
    LET verdict == ValidateChatRequest(req)
        fresh == ~Truthy(req.session_id) \/ ~SessionExists(database, req.session_id)
        session_id == IF fresh THEN Uuid(n + 1) ELSE req.session_id
        \* the ChatResponse is built from the pipeline's result pq and the two
        \* stored messages u and a; valid: its references pass validation
        Respond(pq, u, a, valid) ==
            IF verdict # "ok"
            THEN [status |-> 400, detail |-> verdict, db |-> database, n |-> n,
                  store |-> store, pipeline |-> FALSE]
            ELSE IF pq.raised
            THEN [status |-> 500, detail |-> "Internal server error", db |-> database,
                  n |-> IF fresh THEN n + 1 ELSE n, store |-> pq.store, pipeline |-> TRUE]
            ELSE [status |-> IF valid THEN 200 ELSE 500,
                  detail |-> IF valid THEN "ok" ELSE "Internal server error",
                  session_id |-> session_id, response |-> pq.response,
                  context_references |-> pq.context_items,
                  user_message_added |-> u.result, assistant_message_added |-> a.result,
                  db |-> a.db, n |-> IF fresh THEN n + 1 ELSE n, store |-> pq.store,
                  pipeline |-> TRUE, messages |-> pq.messages]
        StoreAssistant(pq, u) ==
            Respond(pq, u,
                    AddMessageToSession(u.db, cfg, session_id, pq.response, "ASSISTANT",
                                        pq.context_items, env.assistant),
                    /\ ~pq.raised
                    /\ \A i \in 1..Len(pq.context_items) :
                          ValidContextReference(pq.context_items[i]))
        StoreUser(pq) ==
            StoreAssistant(pq, AddMessageToSession(database, cfg, session_id, req.message,
                                                   "USER", <<>>, env.user))
    IN  StoreUser(ProcessQuery(req.message, req.mode, req.selected_text, session_id,
                               store, cfg, env))

\* one POST /chat request handled; resp keeps what the client sent and got
ChatCall(req, env) ==
    LET Sent(c) ==
            [called |-> TRUE, n |-> resp.n + 1, req |-> req, issuedBefore |-> issued,
             insertedBefore |-> db.inserted, status |-> c.status, detail |-> c.detail,
             pipeline |-> c.pipeline]
        Answered(c, sent) ==
            /\ resp' = IF c.status = 400 \/ ~("response" \in DOMAIN c) THEN sent
                       ELSE sent @@ [session_id |-> c.session_id, response |-> c.response,
                                     context_references |-> c.context_references,
                                     user_message_added |-> c.user_message_added,
                                     assistant_message_added |-> c.assistant_message_added,
                                     messages |-> c.messages]
            /\ db' = c.db
            /\ nextId' = c.n
            /\ vs' = c.store
            /\ issued' = IF c.status = 200 THEN issued \cup {c.session_id} ELSE issued
            /\ UNCHANGED <<settings, callVars, pipeVars, hist, auxVars>>
        Handled(c) == Answered(c, Sent(c))
    IN  Handled(ChatEndpoint(req, db, nextId, vs, settings, env))

\* session_service.create_session()
CreateSessionCall(ok) ==
    LET c == CreateSession(db, nextId, ok)
    IN  /\ db' = c.db
        /\ nextId' = c.n
        /\ UNCHANGED <<vsVars, callVars, pipeVars, chatVars, auxVars>>

\* GET /chat/{session_id}: session_service.get_session_messages(session_id)
HistoryCall(session_id, order, ok) ==
    /\ hist' = [called |-> TRUE, session_id |-> session_id, db |-> db, ok |-> ok,
                result |-> GetSessionMessages(db, session_id, order, ok)]
    /\ UNCHANGED <<vsVars, callVars, pipeVars, dbVars, issued, resp, auxVars>>

(***************************************************************************)
(* Scenario 1 (Spec): sessions over several chat turns, then one history   *)
(* lookup.  The index is empty, retrieval and completion succeed.          *)
(***************************************************************************)
\* the clock has moved on when a request arrives; the two commits of one
\* request may fall within the same tick of the clock
UserPersistEnvs == [ok : BOOLEAN, tick : {1}]
AssistantPersistEnvs == [ok : BOOLEAN, tick : {0, 1}]

TurnRequests ==
    [session_id : {NONE} \cup issued \cup db.sessions, message : {<<"q">>},
     mode : {"full_book"}, selected_text : {NONE}]

TurnEnvs ==
    [ctorOk : {TRUE}, embedOk : {TRUE}, searchOk : {TRUE},
     answer : QueryPointsAnswers(vs.points, DefaultLimit),
     llm : {[kind |-> "ok", text |-> Answer]},
     user : UserPersistEnvs, assistant : AssistantPersistEnvs]

NewSession ==
    /\ ~hist.called
    /\ ~resp.called
    /\ nextId < MaxIds
    /\ \E ok \in BOOLEAN : CreateSessionCall(ok)

ChatTurn ==
    /\ ~hist.called
    /\ resp.n < MaxTurns
    /\ nextId < MaxIds
    /\ \E req \in TurnRequests, env \in TurnEnvs : ChatCall(req, env)

History ==
    /\ ~hist.called
    /\ \E session_id \in issued \cup db.sessions, ok \in BOOLEAN :
          \E order \in TimestampOrders(db, RowsOf(db, session_id)) :
              HistoryCall(session_id, order, ok)

Next == NewSession \/ ChatTurn \/ History
Spec == Init /\ [][Next]_vars

(***************************************************************************)
(* Scenario 2 (SpecChat): one POST /chat request of any shape against a    *)
(* store prepared by create_session and add_document, any outcome of the   *)
(* outside calls.                                                          *)
(***************************************************************************)
ChatRequests ==
    [session_id : {NONE, BogusSessionId} \cup db.sessions,
     message : {<<" ">>, <<"q">>},
     mode : {"full_book", "selected_text", "summary"},
     selected_text : {NONE, <<" ">>, <<"s">>}]

ChatLlmOutcomes ==
    { [kind |-> "ok", text |-> Answer], [kind |-> "ok", text |-> <<>>],
      [kind |-> "error", err |-> <<"4", "2", "9">>],
      [kind |-> "error", err |-> <<"d", "o", "w", "n">>] }

ChatEnvs ==
    [ctorOk : BOOLEAN, embedOk : BOOLEAN, searchOk : BOOLEAN,
     answer : QueryPointsAnswers(vs.points, DefaultLimit),
     llm : ChatLlmOutcomes,
     user : [ok : BOOLEAN, tick : {1}], assistant : [ok : BOOLEAN, tick : {1}]]

\* the outside world is not consulted for a request that fails validation
NoEnv ==
    [ctorOk |-> TRUE, embedOk |-> TRUE, searchOk |-> TRUE, answer |-> <<>>,
     llm |-> [kind |-> "ok", text |-> Answer],
     user |-> [ok |-> TRUE, tick |-> 1], assistant |-> [ok |-> TRUE, tick |-> 1]]

PrepareSession ==
    /\ ~resp.called
    /\ nextId < MaxIds - 1
    /\ \E ok \in BOOLEAN : CreateSessionCall(ok)

PrepareIndex ==
    /\ ~resp.called
    /\ \E doc \in ChatDocs, env \in [ctorOk : BOOLEAN, embedOk : BOOLEAN, upsertOk : BOOLEAN] :
           IngestCall(doc, env)

ChatRequest ==
    /\ ~resp.called
    /\ nextId < MaxIds
    /\ \E req \in ChatRequests :
          IF ValidateChatRequest(req) # "ok" THEN ChatCall(req, NoEnv)
          ELSE \E env \in ChatEnvs : ChatCall(req, env)

NextChat == PrepareSession \/ PrepareIndex \/ ChatRequest
SpecChat == Init /\ [][NextChat]_vars

(***************************************************************************)
(* Properties of POST /chat (checked under SpecChat)                       *)
(***************************************************************************)
NonBlank(t) == t # NONE /\ \E i \in 1..Len(t) : t[i] \notin Whitespace

WellFormedRequest(req) ==
    /\ NonBlank(req.message)
    /\ req.mode \in {"full_book", "selected_text"}
    /\ req.mode = "selected_text" => NonBlank(req.selected_text)

\* C1: every well-formed chat request gets a successful response with a
\* string answer and a context_references list, whatever the retriever
\* returned and whether or not the LLM call failed.
C1_WellFormedAlwaysAnswered ==
    (resp.called /\ WellFormedRequest(resp.req)) =>
        /\ resp.status = 200
        /\ IsText(resp.response)
        /\ Len(resp.context_references) >= 0

(***************************************************************************)
(* Properties of sessions and history (checked under Spec)                 *)
(***************************************************************************)
SendersOf(database, session_id, sender_type) ==
    {i \in RowsOf(database, session_id) : database.messages[i].sender_type = sender_type}

\* C3: a request that carries the session_id an earlier chat response
\* returned is answered under that same session_id, and after the second
\* turn of the session its history holds two user and two assistant messages.
C3_SessionIdKept ==
    (resp.called /\ resp.req.session_id \in resp.issuedBefore) =>
        /\ resp.status = 200
        /\ resp.session_id = resp.req.session_id
        /\ resp.n = 2 =>
              /\ Cardinality(SendersOf(db, resp.session_id, "USER")) = 2
              /\ Cardinality(SendersOf(db, resp.session_id, "ASSISTANT")) = 2

\* the ids of the rows a lookup returned, in the order returned
ReturnedIds == [i \in 1..Len(hist.result) |-> hist.result[i].id]

\* the ids of the rows of a session in the order they were appended
RECURSIVE AppendedIds(_, _)
AppendedIds(messages, session_id) ==
    IF messages = <<>> THEN <<>>
    ELSE (IF Head(messages).session_id = session_id THEN <<Head(messages).id>> ELSE <<>>)
            \o AppendedIds(Tail(messages), session_id)

\* C4: a history lookup returns the session's messages in exactly the order
\* they were appended, whatever timestamps the store assigned to them.
C4_HistoryInAppendOrder ==
    (hist.called /\ hist.ok) => ReturnedIds = AppendedIds(hist.db.messages, hist.session_id)

\* C5: the history returned for one session never contains a message that
\* was stored in a turn of another session.
C5_HistoryIsolation ==
    hist.called =>
        \A i \in 1..Len(hist.result) :
            \A j \in 1..Len(hist.db.messages) :
                hist.db.messages[j].id = hist.result[i].id
                    => hist.db.messages[j].session_id = hist.session_id

\* two sessions hold messages and the lookup of one returns its own two
C5_Witness ==
    /\ hist.called
    /\ Len(hist.result) = 2
    /\ \E j \in 1..Len(hist.db.messages) : hist.db.messages[j].session_id # hist.session_id

(***************************************************************************)
(* EmbeddingService (services/embedding_service.py)                        *)
(***************************************************************************)
EmbeddingDim == 1024

\* [0.0] * 1024, the fallback of the except branches
ZeroVector == <<"zeros", EmbeddingDim>>

\* embed_text; ok: co.embed returned
EmbedText(text, ok) == IF ok THEN Embed(text) ELSE ZeroVector

\* embed_documents; ok: co.embed returned
EmbedDocuments(documents, ok) ==
    [i \in 1..Len(documents) |-> IF ok THEN Embed(documents[i]) ELSE ZeroVector]

(***************************************************************************)
(* DocumentService.create_document (services/document_service.py)          *)
(***************************************************************************)
\* the loop of create_document over chunks i..Len(chunks): each chunk goes to
\* the vector store under its own id with the embedding of the same index
RECURSIVE StoreChunks(_, _, _, _, _, _, _)
StoreChunks(store, cfg, env, doc_id, chunks, embeddings, i) ==
    IF i > Len(chunks) THEN store
    ELSE StoreChunks(VSAddDocument(store, cfg, env.ctorOk, env.upsertOk, chunks[i].id,
                                   chunks[i].content, embeddings[i],
                                   [document_id |-> doc_id,
                                    chunk_order |-> chunks[i].order]),
                     cfg, env, doc_id, chunks, embeddings, i + 1)

\* create_document.  documents: the two tables; n: uuid4 values drawn so far;
\* env.insertOk: the commit of the document row met no error of its own (a
\* second row with the same primary key is rejected whatever env says);
\* env.embedOk: co.embed returned; env.commitOk: the final commit succeeded.
CreateDocument(documents, store, cfg, env, doc_id, title, content, source_type, n) ==
    LET Processed(chunks, withRow) ==
            [status |-> IF env.commitOk THEN "INDEXED" ELSE "ERROR",
             docs |-> IF env.commitOk
                      THEN [withRow EXCEPT !.chunks =
                               @ \cup {[id |-> chunks[i].id, document_id |-> doc_id,
                                        content |-> chunks[i].content,
                                        chunk_order |-> chunks[i].order] :
                                       i \in 1..Len(chunks)}]
                      ELSE withRow,
             store |-> StoreChunks(store, cfg, env, doc_id, chunks,
                                   EmbedDocuments([i \in 1..Len(chunks) |-> chunks[i].content],
                                                  env.embedOk), 1),
             n |-> n + Len(chunks)]
        row == [title |-> title, content |-> content, source_type |-> source_type]
    IN  IF doc_id \in DOMAIN documents.documents \/ ~env.insertOk
        THEN [status |-> "ERROR", docs |-> documents, store |-> store, n |-> n]
        ELSE Processed(DocChunkDocument(content, doc_id, ChunkSize, n),
                       [documents EXCEPT !.documents =
                           [d \in (DOMAIN @) \cup {doc_id} |-> IF d = doc_id THEN row ELSE @[d]]])

(***************************************************************************)
(* RAGQueryTool._get_vector_store_results (services/rag_tool.py)           *)
(***************************************************************************)
\* env: ctorOk, embedOk, searchOk, answer
GetVectorStoreResults(store, cfg, query, limit, env) ==
    LET Found(found) ==
            [store |-> found.store, query_embedding |-> EmbedText(query, env.embedOk),
             searched |-> TRUE, results |-> found.results]
    IN  Found(VSSearch(store, cfg, env.ctorOk, env.searchOk, env.answer))

(***************************************************************************)
(* Scenario 3 (SpecDocs): documents ingested through RAGService and through*)
(* DocumentService, then one query of the agent tool.                      *)
(***************************************************************************)
\* a document of one chunk and a document of two chunks
IngestDocs ==
    { [id |-> "d1", title |-> "A", content |-> <<"a", ".">>],
      [id |-> "d4", title |-> "D", content |-> LongText(ChunkSize) \o <<"y">>] }

\* what the first use of the vector store meets: the constructor may raise,
\* the collection calls may fail; later uses find the client in place
FirstUseEnvs ==
    IF vs.initialized \/ ~settings.qdrant_configured
    THEN {[ctorOk |-> TRUE, connectOk |-> TRUE]}
    ELSE [ctorOk : BOOLEAN, connectOk : BOOLEAN]

\* the logical chunk ids held by the index
ChunkIdsOf(store) == {store.points[p].payload.original_doc_id : p \in DOMAIN store.points}

\* what a record of a call keeps of the vector store: the client and the ids
StoreView(store) ==
    [initialized |-> store.initialized, client |-> store.client,
     point_ids |-> DOMAIN store.points, chunk_ids |-> ChunkIdsOf(store)]

\* the point ids a stored document occupies under RAGService.add_document
ChunkPointIds(doc) ==
    {GenerateUuid(ChunkDocId(doc.id, i - 1)) : i \in 1..Len(ChunkDocument(doc.content, ChunkSize))}

\* rag_service.add_document(doc.id, doc.title, doc.content), observed
AddDocumentCall(doc, env) ==
    LET Done(r) ==
            /\ vs' = r.store
            /\ ing' = [called |-> TRUE, n |-> ing.n + 1, path |-> "rag_service", doc |-> doc,
                       env |-> env, before |-> StoreView(vs), after |-> StoreView(r.store),
                       status |-> IF r.ok THEN "INDEXED" ELSE "ERROR",
                       again |-> <<"rag_service", doc.id, doc.content>> \in Get(ing, "seen", {}),
                       seen |-> Get(ing, "seen", {}) \cup
                                  (IF r.ok /\ env.upsertOk
                                   THEN {<<"rag_service", doc.id, doc.content>>} ELSE {})]
    IN  /\ Done(AddDocument(vs, settings, env, doc.id, doc.title, doc.content, "BOOK_FULL"))
        /\ UNCHANGED <<settings, callVars, pipeVars, dbVars, chatVars, ck, docs, tool, routeVars, lateVars>>

\* DocumentService().create_document(doc.id, doc.title, doc.content), observed
CreateDocumentCall(doc, env) ==
    LET Done(r) ==
            /\ vs' = r.store
            /\ docs' = r.docs
            /\ nextId' = r.n
            /\ ing' = [called |-> TRUE, n |-> ing.n + 1, path |-> "document_service",
                       doc |-> doc, env |-> env, before |-> StoreView(vs),
                       after |-> StoreView(r.store), status |-> r.status,
                       fresh |-> /\ doc.id \notin DOMAIN docs.documents
                                 /\ \A p \in DOMAIN vs.points :
                                       vs.points[p].payload.metadata.document_id # doc.id,
                       again |-> <<"document_service", doc.id, doc.content>>
                                    \in Get(ing, "seen", {}),
                       seen |-> Get(ing, "seen", {}) \cup
                                  (IF doc.id \in DOMAIN r.docs.documents /\ env.upsertOk
                                      /\ doc.id \notin DOMAIN docs.documents
                                   THEN {<<"document_service", doc.id, doc.content>>} ELSE {})]
    IN  /\ Done(CreateDocument(docs, vs, settings, env, doc.id, doc.title, doc.content,
                               "BOOK_FULL", nextId))
        /\ UNCHANGED <<settings, callVars, pipeVars, db, chatVars, ck, tool, routeVars, lateVars>>

\* RAGQueryTool()._get_vector_store_results(query, limit), observed
ToolQueryCall(query, limit, env) ==
    LET Done(r) ==
            /\ vs' = r.store
            /\ tool' = [called |-> TRUE, query |-> query, limit |-> limit, env |-> env,
                        before |-> StoreView(vs), after |-> StoreView(r.store),
                        query_embedding |-> r.query_embedding, searched |-> r.searched,
                        results |-> r.results]
    IN  /\ Done(GetVectorStoreResults(vs, settings, query, limit, env))
        /\ UNCHANGED <<settings, callVars, pipeVars, dbVars, chatVars, ck, docs, ing, routeVars, lateVars>>

AddDoc ==
    /\ ~tool.called
    /\ ing.n < MaxIngests
    /\ \E doc \in IngestDocs, first \in FirstUseEnvs, embedOk \in BOOLEAN, upsertOk \in BOOLEAN :
          AddDocumentCall(doc, [ctorOk |-> first.ctorOk, connectOk |-> first.connectOk,
                                embedOk |-> embedOk, upsertOk |-> upsertOk])

\* a document row is refused here only for its primary key: a refusal for
\* another reason leaves the same state behind
CreateDoc ==
    /\ ~tool.called
    /\ ing.n < MaxIngests
    /\ \E doc \in IngestDocs, first \in FirstUseEnvs,
          flags \in [insertOk : {TRUE}, embedOk : BOOLEAN, upsertOk : BOOLEAN,
                     commitOk : BOOLEAN] :
          CreateDocumentCall(doc, flags @@ first)

ToolQuery ==
    /\ ~tool.called
    /\ \E query \in Queries, first \in FirstUseEnvs, embedOk \in BOOLEAN, searchOk \in BOOLEAN :
          \E answer \in {h \in QueryPointsAnswers(vs.points, 1) : \A i \in 1..Len(h) : h[i][2] = 90} :
              ToolQueryCall(query, 1, [ctorOk |-> first.ctorOk, connectOk |-> first.connectOk,
                                       embedOk |-> embedOk, searchOk |-> searchOk,
                                       answer |-> answer])

NextDocs == AddDoc \/ CreateDoc \/ ToolQuery
SpecDocs == Init /\ [][NextDocs]_vars

(***************************************************************************)
(* Properties of ingestion and of the vector store (checked under SpecDocs)*)
(***************************************************************************)
\* C15: a document ingested again with the same id and the same content leaves
\* the index with the same points and the same chunk ids as before the second
\* ingestion, each chunk id under one point: no point was added.
C15_ReingestionAddsNoPoint ==
    (ing.called /\ ing.again) =>
        /\ ing.after.point_ids = ing.before.point_ids
        /\ ing.after.chunk_ids = ing.before.chunk_ids
        /\ Cardinality(ing.after.chunk_ids) = Cardinality(ing.after.point_ids)
        /\ ing.path = "rag_service" /\ ing.status = "INDEXED" /\ ing.env.upsertOk
              => ChunkPointIds(ing.doc) \subseteq ing.after.point_ids

\* the two-chunk document was ingested a second time by add_document
C15_Witness ==
    /\ ing.called
    /\ ing.again
    /\ ing.path = "rag_service"
    /\ ing.doc.id = "d4"
    /\ ing.status = "INDEXED"
    /\ ing.env.upsertOk
    /\ Cardinality(ing.after.point_ids) = 2

\* the first use of the vector store by the observed call met a missing
\* configuration, a raising constructor or a failing collection call
FirstUseFell(call) ==
    /\ ~call.before.initialized
    /\ \/ ~settings.qdrant_configured
       \/ ~call.env.ctorOk
       \/ ~call.env.connectOk

\* C16: the vector store has no client before its first operation, an
\* operation that finds a client keeps it, and a first use that meets a missing
\* configuration or a failing connection leaves the in-memory client in use.
C16_LazyClientWithFallback ==
    /\ (~ing.called /\ ~tool.called) => (~vs.initialized /\ vs.client = "none")
    /\ ing.called =>
          /\ ing.after.initialized
          /\ ing.before.initialized => ing.after.client = ing.before.client
          /\ FirstUseFell(ing) => ing.after.client = "memory"
    /\ tool.called =>
          /\ tool.after.initialized
          /\ tool.before.initialized => tool.after.client = tool.before.client
          /\ FirstUseFell(tool) => tool.after.client = "memory"

\* C17: no point of the index carries the all-zero fallback vector and no
\* search of the agent tool was made with it as the query vector.
C17_ZeroVectorNeverUsed ==
    /\ \A p \in DOMAIN vs.points : vs.points[p].vector # ZeroVector
    /\ (tool.called /\ tool.searched) => tool.query_embedding # ZeroVector

\* the chunk rows and the index points that belong to document doc_id
ChunkRowsOf(doc_id) == {c \in docs.chunks : c.document_id = doc_id}

PointsOf(doc_id) ==
    {p \in DOMAIN vs.points : vs.points[p].payload.metadata.document_id = doc_id}

\* C27: create_document for an id that neither store knows leaves nothing of
\* the document behind when it returns ERROR (no document row, no chunk row,
\* no index point); when it returns INDEXED the document row is stored and
\* every chunk of the content has its row and its point in the index.
C27_CreateDocumentAllOrNothing ==
    (ing.called /\ ing.path = "document_service" /\ ing.fresh) =>
        /\ ing.status = "ERROR" =>
              /\ ing.doc.id \notin DOMAIN docs.documents
              /\ ChunkRowsOf(ing.doc.id) = {}
              /\ PointsOf(ing.doc.id) = {}
        /\ ing.status = "INDEXED" =>
              /\ ing.doc.id \in DOMAIN docs.documents
              /\ Cardinality(ChunkRowsOf(ing.doc.id))
                     = Len(DocChunkDocument(ing.doc.content, ing.doc.id, ChunkSize, 0))
              /\ \A c \in ChunkRowsOf(ing.doc.id) : c.id \in ChunkIdsOf(vs)

(***************************************************************************)
(* POST /chatkit of the sitemap application (sitemap_rag_main.py)          *)
(***************************************************************************)
KitLimit == 3
KitContentLimit == 1000
KitAnswerLimit == 300

NoInfoText == <<"I couldn't find any relevant information in the provided documents. Please ask a question related to the Physical AI & Humanoid Robotics textbook.">>
NoRelevantText == <<"I couldn't find relevant information about that in the textbook.">>
BasedOnText == <<"Based on the textbook:\n\n">>

\* SITEMAP_DATA, the pages loaded from scraped_sitemap_data.json
SitemapData ==
    << [url |-> "u1", title |-> <<"Q">>, content |-> <<"a", " ", "q">>, description |-> <<>>],
       [url |-> "u2", title |-> <<"T">>, content |-> <<"q">>, description |-> <<>>] >>

\* str.split()
RECURSIVE Words(_)
Words(s) ==
    LET Rest(t) ==
            LET stops == {i \in 1..Len(t) : t[i] \in Whitespace}
                k == IF stops = {} THEN Len(t) + 1
                     ELSE CHOOSE i \in stops : \A j \in stops : i <= j
            IN  <<SubSeq(t, 1, k - 1)>> \o Words(SubSeq(t, k, Len(t)))
    IN  IF LStrip(s) = <<>> THEN <<>> ELSE Rest(LStrip(s))

\* the score find_relevant_content gives one page of the index
RECURSIVE WordScore(_, _)
WordScore(words, item) ==
    IF words = <<>> THEN 0
    ELSE (IF Contains(Lower(item.title), Head(words)) THEN 1 ELSE 0)
         + (IF Contains(Lower(item.content), Head(words)) THEN 1 ELSE 0)
         + WordScore(Tail(words), item)

SitemapScore(item, query_lower) ==
    (IF Contains(Lower(item.title), query_lower) THEN 3 ELSE 0)
    + (IF Contains(Lower(item.content), query_lower) THEN 2 ELSE 0)
    + WordScore(Words(query_lower), item)

\* results.sort(key=score, reverse=True): stable, best first
RECURSIVE SortByScore(_, _)
SortByScore(sorted, rest) ==
    IF rest = <<>> THEN sorted
    ELSE LET x == Head(rest)
             k == Cardinality({i \in 1..Len(sorted) : sorted[i].score >= x.score})
         IN  SortByScore(SubSeq(sorted, 1, k) \o <<x>> \o SubSeq(sorted, k + 1, Len(sorted)),
                         Tail(rest))

\* SitemapRAGService.find_relevant_content
FindRelevantContent(query, limit) ==
    LET scored == [i \in 1..Len(SitemapData) |->
                     [url |-> SitemapData[i].url, title |-> SitemapData[i].title,
                      content |-> IF Len(SitemapData[i].content) > KitContentLimit
                                  THEN Prefix(SitemapData[i].content, KitContentLimit) \o <<"...">>
                                  ELSE SitemapData[i].content,
                      score |-> SitemapScore(SitemapData[i], Lower(query))]]
    IN  Prefix(SortByScore(<<>>, SelectSeq(scored, LAMBDA r : r.score > 0)), limit)

\* the loop of generate_response that keeps the content matching most words
RECURSIVE RelevantContent(_, _, _, _)
RelevantContent(items, words, best_score, relevant_content) ==
    IF items = <<>> THEN relevant_content
    ELSE LET score == Cardinality({i \in 1..Len(words) :
                                      Contains(Lower(Head(items).content), words[i])})
         IN  IF score > best_score
             THEN RelevantContent(Tail(items), words, score, Head(items).content)
             ELSE RelevantContent(Tail(items), words, best_score, relevant_content)

\* SitemapRAGService.generate_response
KitGenerateResponse(query, context_items) ==
    LET Answered(relevant_content) ==
            IF relevant_content = <<>> THEN NoRelevantText
            ELSE IF Len(relevant_content) > KitAnswerLimit
                 THEN BasedOnText \o Prefix(relevant_content, KitAnswerLimit) \o <<"...">>
                 ELSE BasedOnText \o relevant_content
    IN  IF context_items = <<>> THEN NoInfoText
        ELSE Answered(RelevantContent(context_items, Words(Lower(query)), 0, <<>>))

\* SimpleStore.add_message (add_thread when the thread is new)
KitAddMessage(store, thread_id, role, content) ==
    [t \in (DOMAIN store) \cup {thread_id} |->
        IF t = thread_id
        THEN Append(IF t \in DOMAIN store THEN store[t] ELSE <<>>,
                    [role |-> role, text |-> content])
        ELSE store[t]]

\* chatkit_endpoint; n: thread ids drawn so far (the default of body.get is
\* evaluated whether or not the body names a thread).  The HTTPException of
\* the message test is raised inside the try and caught by `except Exception`.
ChatkitEndpoint(store, body, n) ==
    LET message == Get(body, "message", <<>>)
        thread_id == Get(body, "thread_id", <<"thread", n + 1>>)
        mode == Get(body, "mode", "full_book")
        selected_text == Get(body, "selected_text", NONE)
        Stored(context_items, retrieved) ==
            [status |-> 200, retrieved |-> retrieved, pipeline |-> TRUE,
             response |-> KitGenerateResponse(message, context_items),
             threads |-> KitAddMessage(KitAddMessage(store, thread_id, "user", message),
                                       thread_id, "assistant",
                                       KitGenerateResponse(message, context_items))]
    IN  IF ~Truthy(message)
        THEN [status |-> 500, retrieved |-> FALSE, pipeline |-> FALSE, threads |-> store]
        ELSE IF mode = "selected_text" /\ Truthy(selected_text)
        THEN Stored(<<[url |-> "user_selection", title |-> <<"Selected Text">>,
                       content |-> selected_text, score |-> 10]>>, FALSE)
        ELSE Stored(FindRelevantContent(message, KitLimit), TRUE)

(***************************************************************************)
(* Scenario 4 (SpecValidate): one request to POST /chat or to POST /chatkit*)
(***************************************************************************)
\* JSON bodies: each key present or absent
KitBodies ==
    { m @@ t @@ o @@ x :
        m \in {<<>>} \cup [message : {<<>>, <<" ">>, <<"q">>}],
        t \in {<<>>} \cup [thread_id : {<<"thread", 0>>}],
        o \in {<<>>} \cup [mode : {"full_book", "selected_text", "summary"}],
        x \in {<<>>} \cup [selected_text : {<<" ">>, <<"s">>}] }

\* POST /chatkit with `body`, observed
ChatkitCall(body) ==
    LET Done(c) ==
            kit' = [called |-> TRUE, n |-> kit.n + 1, body |-> body, before |-> kit.threads,
                    threads |-> c.threads, status |-> c.status, retrieved |-> c.retrieved,
                    pipeline |-> c.pipeline, response |-> Get(c, "response", NONE)]
    IN  /\ Done(ChatkitEndpoint(kit.threads, body, kit.n))
        /\ UNCHANGED <<vsVars, callVars, pipeVars, dbVars, chatVars, ck, docs, ing, tool,
                       route, threads, lateVars>>

Chatkit ==
    /\ ~resp.called
    /\ kit.n < MaxTurns
    /\ \E body \in KitBodies : ChatkitCall(body)

\* POST /chat as the only request of the run
ValidatedChat ==
    /\ ~kit.called
    /\ ChatRequest

NextValidate == ValidatedChat \/ Chatkit
SpecValidate == Init /\ [][NextValidate]_vars

\* the request a /chatkit body stands for
KitRequest(body) ==
    [message |-> Get(body, "message", <<>>), mode |-> Get(body, "mode", "full_book"),
     selected_text |-> Get(body, "selected_text", NONE)]

\* C18: a chat request with a blank message, an unknown mode or a missing
\* selected text is answered with a 4xx status, and nothing of the pipeline
\* happened for it: no retrieval, no generation, no message stored.
C18_IllFormedRejectedBeforePipeline ==
    /\ (resp.called /\ ~WellFormedRequest(resp.req)) =>
          /\ resp.status \in 400..499
          /\ ~resp.pipeline
          /\ db.inserted = resp.insertedBefore
    /\ (kit.called /\ ~WellFormedRequest(KitRequest(kit.body))) =>
          /\ kit.status \in 400..499
          /\ ~kit.retrieved
          /\ ~kit.pipeline
          /\ kit.threads = kit.before

(***************************************************************************)
(* Deleting sessions and fetching documents                                *)
(***************************************************************************)
\* SessionService.delete_session; ok: the queries and the commit met no error
DeleteSession(database, session_id, ok) ==
    IF ~ok \/ session_id \notin database.sessions
    THEN [db |-> database, result |-> FALSE]
    ELSE [db |-> [database EXCEPT
                     !.messages = SelectSeq(@, LAMBDA m : m.session_id # session_id),
                     !.sessions = @ \ {session_id}],
          result |-> TRUE]

\* what `except Exception` of a route makes of an exception raised in its try:
\* HTTPException is an Exception, whatever status it carries
ExceptException(raised_status) == 500

\* DELETE /sessions/{session_id} (api/routes/sessions.py)
DeleteSessionRoute(database, session_id, ok) ==
    LET Answered(d) ==
            [db |-> d.db, status |-> IF d.result THEN 200 ELSE ExceptException(404)]
    IN  Answered(DeleteSession(database, session_id, ok))

\* DocumentService.get_document; ok: the query met no error.  None is the
\* record without fields.
GetDocument(documents, doc_id, ok) ==
    IF ok /\ doc_id \in DOMAIN documents.documents
    THEN [id |-> doc_id, title |-> documents.documents[doc_id].title,
          source_type |-> documents.documents[doc_id].source_type, status |-> "INDEXED"]
    ELSE <<>>

\* GET /documents/{document_id} (api/routes/documents.py)
GetDocumentRoute(documents, document_id, ok) ==
    LET Answered(doc) ==
            IF DOMAIN doc = {} THEN [status |-> ExceptException(404)]
            ELSE [status |-> 200, document_id |-> doc.id, title |-> doc.title]
    IN  Answered(GetDocument(documents, document_id, ok))

\* DatabaseStore.add_thread_item (main.py); env.threadOk, env.itemOk: the
\* commit of the thread row and the commit of the item met no error
AddThreadItem(store, thread_id, item, env) ==
    LET WithItem(s1) ==
            IF env.itemOk
            THEN [s1 EXCEPT !.items =
                     {i \in @ : i.id # item.id} \cup
                     {IF \E i \in s1.items : i.id = item.id
                      THEN [(CHOOSE i \in s1.items : i.id = item.id)
                               EXCEPT !.content = item.content, !.role = item.role]
                      ELSE [id |-> item.id, thread_id |-> thread_id, role |-> item.role,
                            content |-> item.content, created_at |-> item.created_at]}]
            ELSE s1
    IN  IF thread_id \in store.threads THEN WithItem(store)
        ELSE IF env.threadOk
        THEN WithItem([store EXCEPT !.threads = @ \cup {thread_id}])
        ELSE store

\* DELETE /api/sessions/{session_id} (main.py); ok: the statements and the
\* commit met no error
MainDeleteSession(store, session_id, ok) ==
    IF ~ok THEN [threads |-> store, status |-> ExceptException(0)]
    ELSE [threads |-> [threads |-> store.threads \ {session_id},
                       items |-> {i \in store.items : i.thread_id # session_id}],
          status |-> IF session_id \in store.threads THEN 200 ELSE 404]

(***************************************************************************)
(* Scenario 5 (SpecRoutes): one of the stores is filled, then sessions are *)
(* deleted and documents fetched.  The three stores do not touch each      *)
(* other, a run fills one of them.                                         *)
(***************************************************************************)
\* the record of a delete / fetch request
RouteSeen(kind, id, ok, existed, status) ==
    [called |-> TRUE, n |-> route.n + 1, kind |-> kind, id |-> id, ok |-> ok,
     existed |-> existed, status |-> status,
     deletedBefore |-> Get(route, "deleted", {}),
     deleted |-> Get(route, "deleted", {}) \cup
                   (IF status = 200 /\ kind # "get_document" THEN {<<kind, id>>} ELSE {})]

DeleteSessionCall(session_id, ok) ==
    LET Done(r) ==
            /\ db' = r.db
            /\ route' = RouteSeen("delete_session", session_id, ok,
                                  session_id \in db.sessions, r.status)
    IN  /\ Done(DeleteSessionRoute(db, session_id, ok))
        /\ UNCHANGED <<vsVars, callVars, pipeVars, nextId, chatVars, ck, docs, ing, tool, kit,
                       threads, lateVars>>

GetDocumentCall(document_id, ok) ==
    /\ route' = RouteSeen("get_document", document_id, ok,
                          document_id \in DOMAIN docs.documents,
                          GetDocumentRoute(docs, document_id, ok).status)
    /\ UNCHANGED <<vsVars, callVars, pipeVars, dbVars, chatVars, ck, docs, ing, tool, kit,
                   threads, lateVars>>

MainDeleteSessionCall(session_id, ok) ==
    LET Done(r) ==
            /\ threads' = r.threads
            /\ route' = RouteSeen("delete_thread", session_id, ok,
                                  session_id \in threads.threads, r.status)
    IN  /\ Done(MainDeleteSession(threads, session_id, ok))
        /\ UNCHANGED <<vsVars, callVars, pipeVars, dbVars, chatVars, ck, docs, ing, tool, kit, lateVars>>

AddThreadItemCall(thread_id, item, env) ==
    /\ threads' = AddThreadItem(threads, thread_id, item, env)
    /\ UNCHANGED <<vsVars, callVars, pipeVars, dbVars, chatVars, ck, docs, ing, tool, route, kit, lateVars>>

ThreadIds == {<<"thread", 0>>, <<"thread", 9>>}
DocumentIds == {"d1", "d9"}

\* the session store is filled: sessions are created, one chat turn is made
RouteSession ==
    /\ ~route.called
    /\ ~ing.called
    /\ threads.threads = {}
    /\ NewSession

RouteTurn ==
    /\ ~route.called
    /\ ~ing.called
    /\ threads.threads = {}
    /\ ~resp.called
    /\ ChatTurn

\* the document store is filled
RouteDocument ==
    /\ ~route.called
    /\ ~ing.called
    /\ nextId = 0
    /\ threads.threads = {}
    /\ \E first \in FirstUseEnvs :
          CreateDocumentCall(CHOOSE doc \in IngestDocs : doc.id = "d1",
                             [insertOk |-> TRUE, embedOk |-> TRUE, upsertOk |-> TRUE,
                              commitOk |-> TRUE] @@ first)

\* the thread store is filled
RouteThread ==
    /\ ~route.called
    /\ ~ing.called
    /\ nextId = 0
    /\ \E item \in [id : {"i1"}, role : {"user", "assistant"}, content : {<<"q">>},
                      created_at : {0}],
          env \in [threadOk : BOOLEAN, itemOk : BOOLEAN] :
          AddThreadItemCall(<<"thread", 0>>, item, env)

DeleteSessionRequest ==
    /\ route.n < MaxRouteCalls
    /\ \E session_id \in db.sessions \cup issued \cup {BogusSessionId}
                          \cup {d[2] : d \in Get(route, "deleted", {})},
          ok \in BOOLEAN : DeleteSessionCall(session_id, ok)

GetDocumentRequest ==
    /\ route.n < MaxRouteCalls
    /\ \E document_id \in DocumentIds, ok \in BOOLEAN : GetDocumentCall(document_id, ok)

MainDeleteSessionRequest ==
    /\ route.n < MaxRouteCalls
    /\ \E session_id \in ThreadIds, ok \in BOOLEAN : MainDeleteSessionCall(session_id, ok)

NextRoutes ==
    \/ RouteSession
    \/ RouteTurn
    \/ RouteDocument
    \/ RouteThread
    \/ DeleteSessionRequest
    \/ GetDocumentRequest
    \/ MainDeleteSessionRequest

SpecRoutes == Init /\ [][NextRoutes]_vars

\* C19: a delete or fetch of something that is not there is answered 404,
\* an internal failure 500; deleting what is there is answered 200 and a
\* second delete of the same thing 404.
C19_NotFoundIsExplicit ==
    route.called =>
        /\ ~route.ok => route.status = 500
        /\ (route.ok /\ ~route.existed) => route.status = 404
        /\ (route.ok /\ route.existed) => route.status = 200
        /\ (route.ok /\ <<route.kind, route.id>> \in route.deletedBefore) => route.status = 404

\* C20: every stored message names a session that has a row, and a deleted
\* session leaves no message behind.
C20_MessagesBelongToSessions ==
    /\ \A i \in 1..Len(db.messages) : db.messages[i].session_id \in db.sessions
    /\ (route.called /\ route.kind = "delete_session" /\ route.status = 200) =>
           RowsOf(db, route.id) = {}

(***************************************************************************)
(* Deleting a document (document_service.py, vector_store.py)              *)
(***************************************************************************)
\* the point id client.delete is handed: doc_id as it is, not its uuid5
RawPointId(doc_id) == <<"raw", doc_id>>

\* VectorStore.delete_document; deleteOk: client.delete returned
VSDeleteDocument(store, cfg, ctorOk, deleteOk, doc_id) ==
    LET Deleted(s1) ==
            IF deleteOk
            THEN [s1 EXCEPT !.points =
                     [p \in (DOMAIN s1.points) \ {RawPointId(doc_id)} |-> s1.points[p]]]
            ELSE s1
    IN  Deleted(EnsureInitialized(store, cfg, ctorOk))

\* the first loop of delete_document over the chunk rows found
RECURSIVE DeleteChunkPoints(_, _, _, _)
DeleteChunkPoints(store, cfg, env, chunk_ids) ==
    IF chunk_ids = {} THEN store
    ELSE LET c == CHOOSE x \in chunk_ids : TRUE
         IN  DeleteChunkPoints(VSDeleteDocument(store, cfg, env.ctorOk, env.deleteOk, c),
                               cfg, env, chunk_ids \ {c})

\* DocumentService.delete_document.  env.queryOk: the query for the chunk
\* rows returned; env.commitOk: the commit succeeded.  An exception rolls the
\* relational store back; what was done to the vector index stays done.
DeleteDocument(documents, store, cfg, env, doc_id) ==
    LET Looped(chunks, after) ==
            IF doc_id \notin DOMAIN documents.documents
            THEN [result |-> FALSE, docs |-> documents, store |-> after]
            ELSE IF ~env.commitOk
            THEN [result |-> FALSE, docs |-> documents, store |-> after]
            ELSE [result |-> TRUE,
                  docs |-> [documents |-> [d \in (DOMAIN documents.documents) \ {doc_id} |->
                                              documents.documents[d]],
                            chunks |-> documents.chunks \ chunks],
                  store |-> after]
        Found(chunks) ==
            Looped(chunks, DeleteChunkPoints(store, cfg, env, {c.id : c \in chunks}))
    IN  IF ~env.queryOk THEN [result |-> FALSE, docs |-> documents, store |-> store]
        ELSE Found({c \in documents.chunks : c.document_id = doc_id})

(***************************************************************************)
(* Scenario 6 (SpecDelete): documents are created, one is deleted, then the*)
(* agent tool searches the index.                                          *)
(***************************************************************************)
\* DocumentService().delete_document(doc_id), observed
DeleteDocumentCall(doc_id, env) ==
    LET Done(r) ==
            /\ vs' = r.store
            /\ docs' = r.docs
            /\ removal' = [called |-> TRUE, doc_id |-> doc_id, env |-> env,
                           result |-> r.result,
                           existed |-> doc_id \in DOMAIN docs.documents]
    IN  /\ Done(DeleteDocument(docs, vs, settings, env, doc_id))
        /\ UNCHANGED <<settings, callVars, pipeVars, dbVars, chatVars, ck, ing, tool,
                       routeVars, pager, conc>>

\* the embedding service answers throughout this scenario
StoreDoc ==
    /\ ~removal.called
    /\ ing.n < MaxIngests
    /\ \E doc \in IngestDocs, first \in FirstUseEnvs,
          flags \in [insertOk : {TRUE}, embedOk : {TRUE}, upsertOk : BOOLEAN,
                     commitOk : BOOLEAN] :
          CreateDocumentCall(doc, flags @@ first)

DeleteDoc ==
    /\ ~removal.called
    /\ ~tool.called
    /\ \E doc_id \in {doc.id : doc \in IngestDocs} \cup {"d9"}, first \in FirstUseEnvs,
          flags \in [queryOk : BOOLEAN, deleteOk : BOOLEAN, commitOk : BOOLEAN] :
          DeleteDocumentCall(doc_id, flags @@ first)

SearchAfterDelete ==
    /\ removal.called
    /\ ~tool.called
    /\ \E query \in Queries, first \in FirstUseEnvs :
          \E answer \in {h \in QueryPointsAnswers(vs.points, 1) : \A i \in 1..Len(h) : h[i][2] = 90} :
              ToolQueryCall(query, 1, [ctorOk |-> first.ctorOk, connectOk |-> first.connectOk,
                                       embedOk |-> TRUE, searchOk |-> TRUE,
                                       answer |-> answer])

NextDelete == StoreDoc \/ DeleteDoc \/ SearchAfterDelete
SpecDelete == Init /\ [][NextDelete]_vars

\* C21: after a successful delete_document(d) the relational store holds no
\* row of d, the index holds no point of d, and a search returns none.
C21_DeletedDocumentLeavesNoChunk ==
    (removal.called /\ removal.result) =>
        /\ removal.doc_id \notin DOMAIN docs.documents
        /\ \A c \in docs.chunks : c.document_id # removal.doc_id
        /\ \A p \in DOMAIN vs.points :
              vs.points[p].payload.metadata.document_id # removal.doc_id
        /\ tool.called =>
              \A i \in 1..Len(tool.results) :
                  tool.results[i].metadata.document_id # removal.doc_id

(***************************************************************************)
(* The history of a session and the completion call (checked under Spec)   *)
(***************************************************************************)
\* the messages a session held before the last chat request, in stored order
PriorMessages ==
    SelectSeq(db.messages,
              LAMBDA m : m.session_id = resp.session_id /\ m.id <= resp.insertedBefore)

\* C22: in a turn of a session that already holds messages, the completion
\* call receives the system instruction, then the stored messages of the
\* session in their order, then the query as the last user message.
C22_HistorySubmitted ==
    (resp.called /\ resp.status = 200 /\ PriorMessages # <<>>) =>
        /\ Len(resp.messages) = Len(PriorMessages) + 2
        /\ resp.messages[1].role = "system"
        /\ \A i \in 1..Len(PriorMessages) :
              resp.messages[i + 1].content = PriorMessages[i].content
        /\ resp.messages[Len(resp.messages)] = [role |-> "user", content |-> resp.req.message]

\* a row of `sender_type` was stored for the session by the last chat request
StoredByTurn(sender_type) ==
    \E i \in 1..Len(db.messages) :
        /\ db.messages[i].id > resp.insertedBefore
        /\ db.messages[i].session_id = resp.session_id
        /\ db.messages[i].sender_type = sender_type

ThreadItemsOrdered(store, thread_id, order) ==
    LET rows == {i \in store.items : i.thread_id = thread_id}
        Before(a, b) == IF order = "desc" THEN a.created_at > b.created_at
                        ELSE a.created_at < b.created_at
        Rank(i) == Cardinality({j \in rows : Before(j, i)}) + 1
    IN  [k \in 1..Cardinality(rows) |-> CHOOSE i \in rows : Rank(i) = k]

\* seq[a:b] of Python, 0-based and clipped
Slice(seq, a, b) == SubSeq(seq, a + 1, IF b < Len(seq) THEN b ELSE Len(seq))

EmptyPage == [data |-> <<>>, has_more |-> FALSE, after |-> NONE]

\* DatabaseStore.load_thread_items (main.py); ok: the query met no error.
\* MinOf(hits) is idx + 1 of the code, idx counted from 0.
MainLoadThreadItems(store, thread_id, after, limit, order, ok) ==
    IF ~ok THEN EmptyPage
    ELSE LET items == ThreadItemsOrdered(store, thread_id, order)
             hits == {idx \in 1..Len(items) : items[idx].id = after}
             start == IF Truthy(after) /\ hits # {} THEN MinOf(hits) ELSE 0
             slice_items == Slice(items, start, start + limit + 1)
             has_more == Len(slice_items) > limit
             result_items == Slice(slice_items, 0, limit)
         IN  [data |-> [k \in 1..Len(result_items) |-> result_items[k].id],
              has_more |-> has_more,
              after |-> IF has_more /\ slice_items # <<>>
                        THEN slice_items[Len(slice_items)].id ELSE NONE]

\* Store.load_thread_items (core/store.py): the cursor row is looked up by id
\* alone, the rows kept are those created after it, whatever the order
StoreLoadThreadItems(store, thread_id, after, limit, order) ==
    LET ordered == ThreadItemsOrdered(store, thread_id, order)
        cursor == {i \in store.items : i.id = after}
        kept == IF Truthy(after) /\ cursor # {}
                THEN SelectSeq(ordered, LAMBDA i :
                         i.created_at > (CHOOSE c \in cursor : TRUE).created_at)
                ELSE ordered
        items == Slice(kept, 0, limit + 1)
        has_more == Len(items) > limit
        result_items == IF has_more THEN Slice(items, 0, limit) ELSE items
    IN  [data |-> [k \in 1..Len(result_items) |-> result_items[k].id],
         has_more |-> has_more,
         after |-> IF has_more /\ Len(items) > limit THEN items[limit + 1].id ELSE NONE]

LoadThreadItems(impl, store, thread_id, after, limit, order, ok) ==
    IF impl = "main" THEN MainLoadThreadItems(store, thread_id, after, limit, order, ok)
    ELSE StoreLoadThreadItems(store, thread_id, after, limit, order)

(***************************************************************************)
(* Scenario 7 (SpecPage): items are added to one thread, then a client     *)
(* pages through them with one of the two stores.                          *)
(***************************************************************************)
PageThread == <<"thread", 0>>

PageImpls == {"main", "store"}

PageOrders == {"asc", "desc"}

\* a page of a client that stops when has_more is false: there are never
\* more pages than items
MaxPages == MaxItems + 1

\* add_thread_item for the next item of the thread
PageItem ==
    /\ ~pager.called
    /\ Cardinality(threads.items) < MaxItems
    /\ \E role \in {"user", "assistant"} :
          AddThreadItemCall(PageThread,
                            [id |-> <<"item", Cardinality(threads.items)>>, role |-> role,
                             content |-> <<"q">>,
                             created_at |-> Cardinality(threads.items)],
                            [threadOk |-> TRUE, itemOk |-> TRUE])

\* the client starts with no cursor
StartPaging ==
    /\ ~pager.called
    /\ \E impl \in PageImpls, limit \in 1..MaxPageLimit, order \in PageOrders :
          pager' = [called |-> TRUE, impl |-> impl, limit |-> limit, order |-> order,
                    after |-> NONE, has_more |-> TRUE, seen |-> <<>>, pages |-> 0,
                    failed |-> FALSE]
    /\ UNCHANGED <<vsVars, callVars, pipeVars, dbVars, chatVars, ck, docs, ing, tool, routeVars,
                   removal, conc>>

\* load_thread_items(thread, after, limit, order) with the cursor of the page before
LoadPageCall(ok) ==
    LET Got(page) ==
            pager' = [pager EXCEPT !.after = page.after, !.has_more = page.has_more,
                                   !.seen = @ \o page.data, !.pages = @ + 1,
                                   !.failed = @ \/ ~ok]
    IN  /\ Got(LoadThreadItems(pager.impl, threads, PageThread, pager.after, pager.limit,
                               pager.order, ok))
        /\ UNCHANGED <<vsVars, callVars, pipeVars, dbVars, chatVars, ck, docs, ing, tool,
                       routeVars, removal, conc>>

NextPage ==
    /\ pager.called
    /\ pager.has_more
    /\ pager.pages < MaxPages
    /\ \E ok \in BOOLEAN : LoadPageCall(ok)

NextPaging == PageItem \/ StartPaging \/ NextPage
SpecPage == Init /\ [][NextPaging]_vars

\* the ids of the thread's items in the order asked for
ExpectedIds ==
    LET items == ThreadItemsOrdered(threads, PageThread, pager.order)
    IN  [k \in 1..Len(items) |-> items[k].id]

\* C29: a client that pages from no cursor on with each page's `after` until
\* has_more is false has received every item of the thread exactly once and
\* in the order asked for, whatever the page limit.
C29_PagingReturnsEveryItemOnce ==
    (pager.called /\ ~pager.has_more /\ ~pager.failed) => pager.seen = ExpectedIds


(***************************************************************************)
(* Scenario 8 (SpecConc): two POST /chat requests on one session are in    *)
(* the server at the same time.  chat_endpoint has no await: inside one    *)
(* event loop a request runs from its first line to its response before   *)
(* the next one starts; with several worker processes over one database    *)
(* the statements of two requests interleave.                              *)
(***************************************************************************)
ConcRequests == {1, 2}

\* how many worker processes serve the application
WorkerCounts == {1, 2}

ConcMessage(r) == IF r = 1 THEN <<"q">> ELSE <<"r">>

ConcAnswer(r) == IF r = 1 THEN <<"A1">> ELSE <<"A2">>

\* request r may take a step: with one worker only when no other request is
\* between its first line and its response
Runnable(r) ==
    conc.workers = 1 => \A o \in ConcRequests \ {r} : conc.pc[o] \in {"received", "done"}

\* the two requests arrive for the session that exists
ConcArrive ==
    /\ ~conc.called
    /\ db.sessions # {}
    /\ \E workers \in WorkerCounts, session_id \in db.sessions :
          conc' = [called |-> TRUE, workers |-> workers, session_id |-> session_id,
                   pc |-> [r \in ConcRequests |-> "received"],
                   response |-> [r \in ConcRequests |-> NONE],
                   context_refs |-> [r \in ConcRequests |-> <<>>],
                   observed |-> FALSE]
    /\ UNCHANGED <<vsVars, callVars, pipeVars, dbVars, chatVars, ck, docs, ing, tool, routeVars,
                   removal, pager>>

\* chat_endpoint of request r up to the return of process_query: the request
\* is valid, its session is found
ConcProcessQuery(r, env) ==
    LET Processed(pq) ==
            /\ ~pq.raised
            /\ vs' = pq.store
            /\ conc' = [conc EXCEPT !.pc[r] = "user", !.response[r] = pq.response,
                                    !.context_refs[r] = pq.context_items]
    IN  /\ conc.called
        /\ conc.pc[r] = "received"
        /\ Runnable(r)
        /\ ValidateChatRequest([message |-> ConcMessage(r), mode |-> "full_book",
                                selected_text |-> NONE]) = "ok"
        /\ SessionExists(db, conc.session_id)
        /\ Processed(ProcessQuery(ConcMessage(r), "full_book", NONE, conc.session_id,
                                  vs, settings, env))
        /\ UNCHANGED <<settings, callVars, pipeVars, dbVars, chatVars, ck, docs, ing, tool,
                       routeVars, removal, pager>>

\* the first add_message_to_session of request r
ConcStoreUser(r, env) ==
    /\ conc.called
    /\ conc.pc[r] = "user"
    /\ Runnable(r)
    /\ db' = AddMessageToSession(db, settings, conc.session_id, ConcMessage(r), "USER",
                                 <<>>, env).db
    /\ conc' = [conc EXCEPT !.pc[r] = "assistant"]
    /\ UNCHANGED <<vsVars, callVars, pipeVars, nextId, chatVars, ck, docs, ing, tool, routeVars,
                   removal, pager>>

\* the second add_message_to_session of request r, and the response
ConcStoreAssistant(r, env) ==
    /\ conc.called
    /\ conc.pc[r] = "assistant"
    /\ Runnable(r)
    /\ db' = AddMessageToSession(db, settings, conc.session_id, conc.response[r], "ASSISTANT",
                                 conc.context_refs[r], env).db
    /\ conc' = [conc EXCEPT !.pc[r] = "done"]
    /\ UNCHANGED <<vsVars, callVars, pipeVars, nextId, chatVars, ck, docs, ing, tool, routeVars,
                   removal, pager>>

\* get_session_messages once both requests are answered
ConcHistoryCall(order) ==
    /\ conc.called
    /\ ~conc.observed
    /\ \A r \in ConcRequests : conc.pc[r] = "done"
    /\ conc' = [conc EXCEPT !.observed = TRUE] @@
               [history |-> GetSessionMessages(db, conc.session_id, order, TRUE)]
    /\ UNCHANGED <<vsVars, callVars, pipeVars, dbVars, chatVars, ck, docs, ing, tool, routeVars,
                   removal, pager>>

ConcSession ==
    /\ ~conc.called
    /\ db.sessions = {}
    /\ CreateSessionCall(TRUE)

\* retrieval finds the index empty; the completion call returns or fails
ConcProcess ==
    \E r \in ConcRequests :
      \E llm \in {[kind |-> "ok", text |-> ConcAnswer(r)],
                  [kind |-> "error", err |-> <<"d", "o", "w", "n">>]} :
        ConcProcessQuery(r, [ctorOk |-> TRUE, embedOk |-> TRUE, searchOk |-> TRUE,
                             answer |-> <<>>, llm |-> llm])

\* the commits meet no error; the clock may or may not have moved on
ConcPersistEnvs == [ok : {TRUE}, tick : {0, 1}]

ConcUser == \E r \in ConcRequests, env \in ConcPersistEnvs : ConcStoreUser(r, env)

ConcAssistant == \E r \in ConcRequests, env \in ConcPersistEnvs : ConcStoreAssistant(r, env)

ConcHistory ==
    \E order \in TimestampOrders(db, RowsOf(db, conc.session_id)) : ConcHistoryCall(order)

NextConc == ConcSession \/ ConcArrive \/ ConcProcess \/ ConcUser \/ ConcAssistant \/ ConcHistory
SpecConc == Init /\ [][NextConc]_vars

\* no two rows of the session carry the same timestamp
DistinctTimestamps(session_id) ==
    \A i, j \in RowsOf(db, session_id) :
        i # j => db.messages[i].timestamp # db.messages[j].timestamp

\* C30: after two turns on one session were handled at the same time, the
\* history of the session holds the user message and the reply of both turns,
\* and the user message of each turn is immediately followed by the reply
\* generated for it (the timestamps being distinct, the history has one order).
C30_ConcurrentTurnsStayPaired ==
    (conc.called /\ conc.observed /\ DistinctTimestamps(conc.session_id)) =>
        /\ Len(conc.history) = 2 * Cardinality(ConcRequests)
        /\ \A r \in ConcRequests :
              \E i \in 1..(Len(conc.history) - 1) :
                  /\ conc.history[i].sender_type = "USER"
                  /\ conc.history[i].content = ConcMessage(r)
                  /\ conc.history[i + 1].sender_type = "ASSISTANT"
                  /\ conc.history[i + 1].content = conc.response[r]

====
